---- MODULE Spec2Model ----
(***************************************************************************)
(* Model of the company contact pipeline of web_search_agent_v3.py:        *)
(* record building (scrape_company_info and the snippet fallback of        *)
(* search_and_extract), the blocklist filter (is_valid_record,             *)
(* filter_records) and the deduplication loop of search_and_extract.       *)
(*                                                                         *)
(* Text is modelled at character level: a Python str is a sequence of      *)
(* one-character strings, so that parsing, lower-casing, prefix stripping  *)
(* and pattern matching are computed, not assumed.                         *)
(***************************************************************************)
EXTENDS Integers, Sequences, FiniteSets, TLC

VARIABLES
    (* search_and_extract: the filter and deduplication stages *)
    pc,                \* position in search_and_extract
    company_info_list, \* records built so far (line 350)
    filtered_list,     \* result of filter_records (line 372)
    unique_list,       \* line 376
    seen_domains,      \* line 377
    fi,                \* index of the filter_records loop (line 322)
    di,                \* index of the deduplication loop (line 379)
    (* search_and_extract: building the records *)
    search_results,    \* what search_google returned (line 347)
    ri,                \* index of the loop over search_results (line 352)
    info,              \* the record scrape_company_info is filling, NoInfo outside
    json_ld,           \* the JSON-LD scripts of the page processed so far
    fetch_log,         \* per search result handled: did the page fetch succeed
    has_translator,    \* self.translator is not None (line 49)
    soup,              \* the page the current scrape fetched (line 184), NoSoup if none
    from_text,         \* info as it was after line 211: what the page text gave
    net_log,           \* page requests and courtesy delays of the run, in order
    (* the URL functions applied to one URL *)
    u_parts,           \* the components the input URL was assembled from
    u_rec,             \* the record carrying the URL
    u_pc,              \* "in", "keyed", "rekeyed"
    u_key,             \* deduplication key of u_rec.url
    u_valid,           \* is_valid_record(u_rec)
    u_rekey,           \* key of the key turned back into a URL
    (* the extractors applied to one text *)
    x_text,            \* the input text
    x_done,            \* the extractors that have run on it
    x_email,           \* extract_email(x_text)
    x_phone,           \* extract_phone(x_text)
    x_address,         \* extract_address(x_text)
    (* search_google *)
    max_results,       \* the argument of search_google
    results,           \* line 78
    req_i,             \* i of the loop of line 84
    s_pc,              \* "search", "break", "returned", "raised"
    s_requests,        \* the requests issued so far: their start and num
    s_received,        \* the items the provider has returned so far, as results
    s_failed,          \* number of the first request that failed or brought no items, 0 if none
    s_returned,        \* what search_google returned
    s_version,         \* "v3": web_search_agent_v3.py, "v1": web_search_agent.py
    (* main *)
    m_version,         \* "v3": web_search_agent_v3.py, "v1": web_search_agent.py
    m_pc,              \* the statement main is at
    api_key,           \* line 541
    search_engine_id,  \* line 542
    keywords,          \* line 554
    max_entries,       \* lines 557-560
    company_info,      \* line 568
    m_ran,             \* search_and_extract has returned
    m_requests,        \* outbound requests made so far
    m_written,         \* the report file has been written
    exit_status,       \* {} while running, then the one exit status of the process
    (* generate_html *)
    h_version,         \* "v3" or "v1"
    h_pc,              \* "head", "rows", "done", "raised"
    h_keywords,        \* the argument keywords
    h_location,        \* the argument location
    h_list,            \* the argument company_info_list
    h_i,               \* index of the loop of line 514
    html               \* the document built so far

dedupVars == <<pc, company_info_list, filtered_list, unique_list, seen_domains, fi, di>>
buildVars == <<search_results, ri, info, json_ld, fetch_log, has_translator, soup, from_text, net_log>>
urlVars == <<u_parts, u_rec, u_pc, u_key, u_valid, u_rekey>>
extractVars == <<x_text, x_done, x_email, x_phone, x_address>>
searchVars == <<max_results, results, req_i, s_pc, s_requests, s_received, s_failed, s_returned,
                s_version>>
mainVars == <<m_version, m_pc, api_key, search_engine_id, keywords, max_entries, company_info,
              m_ran, m_requests, m_written, exit_status>>
htmlVars == <<h_version, h_pc, h_keywords, h_location, h_list, h_i, html>>
sideVars == <<extractVars, searchVars, mainVars, htmlVars>>
vars == <<dedupVars, buildVars, urlVars, sideVars>>

(***************************************************************************)
(* Python values                                                           *)
(***************************************************************************)
\* F(e), with e evaluated once: `LET v == e IN F(v)` for a value that the
\* body uses many times
With(e, F(_)) == CHOOSE r \in {F(v) : v \in {e}} : TRUE

\* Python's None; a str is a sequence of one-character strings, so this
\* one-element sequence is no str.
None == <<"None">>

\* the values a record field can hold for which bool(v) is False: None, '',
\* and the JSON values 0, [] and {} (tagged as py_value tags them)
Falsy == {None, <<>>, <<"#num", "0">>, <<"#list", "[]">>, <<"#dict", "{}">>}

\* bool(v) for the value of a record field
Truthy(v) == v \notin Falsy

ToSet(s) == {s[i] : i \in DOMAIN s}

UpperAlpha == <<"A","B","C","D","E","F","G","H","I","J","K","L","M",
                "N","O","P","Q","R","S","T","U","V","W","X","Y","Z">>
LowerAlpha == <<"a","b","c","d","e","f","g","h","i","j","k","l","m",
                "n","o","p","q","r","s","t","u","v","w","x","y","z">>
Digits == {"0","1","2","3","4","5","6","7","8","9"}
Letters == ToSet(UpperAlpha) \cup ToSet(LowerAlpha)
Whitespace == {" ", "\t", "\n"}

\* str.lower() on one character
lower_char(c) ==
    IF c \in ToSet(UpperAlpha)
    THEN LowerAlpha[CHOOSE i \in DOMAIN UpperAlpha : UpperAlpha[i] = c]
    ELSE c

\* str.lower()
str_lower(s) == [i \in DOMAIN s |-> lower_char(s[i])]

\* s.startswith(p)
startswith(s, p) == Len(s) >= Len(p) /\ SubSeq(s, 1, Len(p)) = p

\* s.endswith(p)
endswith(s, p) == Len(s) >= Len(p) /\ SubSeq(s, Len(s) - Len(p) + 1, Len(s)) = p

\* p in s, for strings
contains(s, p) == \E i \in 1..(Len(s) - Len(p) + 1) : SubSeq(s, i, i + Len(p) - 1) = p

\* s.strip()
str_strip(s) ==
    With({i \in DOMAIN s : s[i] \notin Whitespace}, LAMBDA keep :
        IF keep = {} THEN <<>>
        ELSE SubSeq(s, CHOOSE i \in keep : \A j \in keep : i <= j,
                       CHOOSE i \in keep : \A j \in keep : i >= j))

\* first index >= from at which s holds a character of cs, Len(s)+1 if none
find_any(s, cs, from) ==
    With({i \in from..Len(s) : s[i] \in cs}, LAMBDA hits :
        IF hits = {} THEN Len(s) + 1 ELSE CHOOSE i \in hits : \A j \in hits : i <= j)

(***************************************************************************)
(* urllib.parse.urlparse(url).netloc                                       *)
(***************************************************************************)
SchemeChars == Letters \cup Digits \cup {"+", "-", "."}

\* the URL after its scheme: "scheme:" is split off when the text before the
\* first ':' is non-empty, starts with a letter and holds scheme characters only
after_scheme(url) ==
    With(find_any(url, {":"}, 1), LAMBDA i :
        IF /\ i <= Len(url)
           /\ i > 1
           /\ url[1] \in Letters
           /\ \A j \in 1..(i - 1) : url[j] \in SchemeChars
        THEN SubSeq(url, i + 1, Len(url))
        ELSE url)

\* [ok, netloc]: ok = FALSE when urlparse raises ValueError (a '[' without ']'
\* in the network location, or the reverse); the netloc is what stands between
\* a leading '//' and the next '/', '?' or '#': userinfo, host and port.
urlparse_netloc(url) ==
    With(after_scheme(url), LAMBDA rest :
        IF startswith(rest, <<"/", "/">>)
        THEN With(SubSeq(rest, 3, find_any(rest, {"/", "?", "#"}, 3) - 1), LAMBDA netloc :
                 IF ("[" \in ToSet(netloc)) # ("]" \in ToSet(netloc))
                 THEN [ok |-> FALSE, netloc |-> <<>>]
                 ELSE [ok |-> TRUE, netloc |-> netloc])
        ELSE [ok |-> TRUE, netloc |-> <<>>])

Www == <<"w","w","w",".">>

\* mutant of strip_www: every leading 'www.' is removed, not only one
RECURSIVE strip_www_all(_)
strip_www_all(netloc) ==
    LET domain == str_lower(netloc)
    IN  IF startswith(domain, Www)
        THEN strip_www_all(SubSeq(domain, 5, Len(domain)))
        ELSE domain

\* domain = netloc.lower(); if domain.startswith('www.'): domain = domain[4:]
strip_www(netloc) ==
    With(str_lower(netloc), LAMBDA domain :
        IF startswith(domain, Www) THEN SubSeq(domain, 5, Len(domain)) ELSE domain)

\* the domain both is_valid_record and the deduplication loop compute from a URL
\* [ok, domain]; ok = FALSE when urlparse raised
normalized_domain(url) ==
    With(urlparse_netloc(url), LAMBDA p :
        [ok |-> p.ok, domain |-> IF p.ok THEN strip_www(p.netloc) ELSE <<>>])

(***************************************************************************)
(* re.findall for the patterns of extract_email, extract_phone and         *)
(* extract_address: a backtracking matcher. A pattern is a sequence of     *)
(* items, tried left to right, each greedy as in Python's re:              *)
(*   [t |-> "bnd"]                      \b                                 *)
(*   [t |-> "cls", set, min, max]       [set]{min,max}                     *)
(*   [t |-> "plus", set, min]           [set]{min,}                        *)
(*   [t |-> "opt", set, n]              (?:[set]{n})?                      *)
(*   [t |-> "alt", alts]                (?:a|b|...) of literal words,      *)
(*                                      compared case-insensitively        *)
(* A position is the index of the next character; 0 stands for no match.   *)
(***************************************************************************)
WordChars == Letters \cup Digits \cup {"_"}

is_word_at(text, i) == i >= 1 /\ i <= Len(text) /\ text[i] \in WordChars

\* \b between position pos - 1 and pos
word_boundary(text, pos) == is_word_at(text, pos - 1) # is_word_at(text, pos)

\* the number of consecutive characters of `set` from pos on
re_run(text, pos, set) ==
    LET stop == {i \in pos..Len(text) : text[i] \notin set}
    IN  IF stop = {} THEN Len(text) + 1 - pos
        ELSE (CHOOSE i \in stop : \A j \in stop : i <= j) - pos

re_min(a, b) == IF a < b THEN a ELSE b

RECURSIVE re_match(_, _, _, _)
RECURSIVE re_try_counts(_, _, _, _, _, _)
RECURSIVE re_try_alts(_, _, _, _, _)

\* the end of the first match, in backtracking order, of items k.. at pos
re_match(text, items, k, pos) ==
    IF k > Len(items) THEN pos
    ELSE LET it == items[k]
         IN  CASE it.t = "bnd" ->
                    IF word_boundary(text, pos) THEN re_match(text, items, k + 1, pos) ELSE 0
               [] it.t = "cls" ->
                    re_try_counts(text, items, k, pos,
                                  re_min(re_run(text, pos, it.set), it.max), it.min)
               [] it.t = "plus" ->
                    re_try_counts(text, items, k, pos, re_run(text, pos, it.set), it.min)
               [] it.t = "opt" ->
                    LET r == IF re_run(text, pos, it.set) >= it.n
                             THEN re_match(text, items, k + 1, pos + it.n)
                             ELSE 0
                    IN  IF r # 0 THEN r ELSE re_match(text, items, k + 1, pos)
               [] it.t = "alt" -> re_try_alts(text, items, k, pos, 1)

\* greedy repetition: n characters first, then fewer, down to min
re_try_counts(text, items, k, pos, n, min) ==
    IF n < min THEN 0
    ELSE LET r == re_match(text, items, k + 1, pos + n)
         IN  IF r # 0 THEN r ELSE re_try_counts(text, items, k, pos, n - 1, min)

\* alternation: the alternatives in the order written
re_try_alts(text, items, k, pos, a) ==
    IF a > Len(items[k].alts) THEN 0
    ELSE LET w == items[k].alts[a]
             r == IF /\ pos + Len(w) - 1 <= Len(text)
                     /\ \A i \in 1..Len(w) : lower_char(text[pos + i - 1]) = lower_char(w[i])
                  THEN re_match(text, items, k + 1, pos + Len(w))
                  ELSE 0
         IN  IF r # 0 THEN r ELSE re_try_alts(text, items, k, pos, a + 1)

\* re.findall(pattern, text): the non-overlapping matches, leftmost first
RECURSIVE re_findall(_, _, _)
re_findall(text, items, from) ==
    IF from > Len(text) THEN <<>>
    ELSE LET e == re_match(text, items, 1, from)
         IN  IF e = 0 THEN re_findall(text, items, from + 1)
             ELSE <<SubSeq(text, from, e - 1)>>
                      \o re_findall(text, items, IF e > from THEN e ELSE from + 1)

Bnd == [t |-> "bnd"]
Cls(set, min, max) == [t |-> "cls", set |-> set, min |-> min, max |-> max]
Plus(set, min) == [t |-> "plus", set |-> set, min |-> min]
Opt(set, n) == [t |-> "opt", set |-> set, n |-> n]
Alt(alts) == [t |-> "alt", alts |-> alts]

(***************************************************************************)
(* extract_email, extract_phone, extract_address                           *)
(***************************************************************************)
\* r'\b[A-Za-z0-9._%+-]+@[A-Za-z0-9.-]+\.[A-Z|a-z]{2,}\b'
email_pattern ==
    << Bnd,
       Plus(Letters \cup Digits \cup {".", "_", "%", "+", "-"}, 1),
       Cls({"@"}, 1, 1),
       Plus(Letters \cup Digits \cup {".", "-"}, 1),
       Cls({"."}, 1, 1),
       Plus(Letters \cup {"|"}, 2),
       Bnd >>

\* line 125: the substrings that mark a match as a false positive
placeholder_domains == {
    <<"e","x","a","m","p","l","e",".","c","o","m">>,
    <<"t","e","s","t",".","c","o","m">>,
    <<"d","o","m","a","i","n",".","c","o","m">> }

\* filtered = [e for e in emails if not any(x in e.lower() for x in [...])]
email_filtered(emails) ==
    SelectSeq(emails, LAMBDA e : ~\E x \in placeholder_domains : contains(str_lower(e), x))

extract_email(text) ==
    LET emails == re_findall(text, email_pattern, 1)
        filtered == email_filtered(emails)
    IN  IF emails # <<>>
        THEN IF filtered # <<>> THEN filtered[1] ELSE emails[1]
        ELSE None

PhoneSep == {"-", "."} \cup Whitespace

\* r'\+?1?[-.\s]?\(?\d{3}\)?[-.\s]?\d{3}[-.\s]?\d{4}' and
\* r'\+?\d{1,3}[-.\s]?\d{1,4}[-.\s]?\d{1,4}[-.\s]?\d{1,9}'
phone_patterns == <<
    << Cls({"+"}, 0, 1), Cls({"1"}, 0, 1), Cls(PhoneSep, 0, 1), Cls({"("}, 0, 1),
       Cls(Digits, 3, 3), Cls({")"}, 0, 1), Cls(PhoneSep, 0, 1), Cls(Digits, 3, 3),
       Cls(PhoneSep, 0, 1), Cls(Digits, 4, 4) >>,
    << Cls({"+"}, 0, 1), Cls(Digits, 1, 3), Cls(PhoneSep, 0, 1), Cls(Digits, 1, 4),
       Cls(PhoneSep, 0, 1), Cls(Digits, 1, 4), Cls(PhoneSep, 0, 1), Cls(Digits, 1, 9) >> >>

\* the first match of the first pattern of `patterns` that matches, stripped
RECURSIVE first_pattern_match(_, _, _)
first_pattern_match(text, patterns, k) ==
    IF k > Len(patterns) THEN None
    ELSE LET found == re_findall(text, patterns[k], 1)
         IN  IF found # <<>> THEN str_strip(found[1])
             ELSE first_pattern_match(text, patterns, k + 1)

\* mutant of extract_phone: the international pattern is tried first
extract_phone_intl_first(text) ==
    first_pattern_match(text, <<phone_patterns[2], phone_patterns[1]>>, 1)

extract_phone(text) == first_pattern_match(text, phone_patterns, 1)

StreetTypes == <<
    <<"S","t","r","e","e","t">>, <<"S","t">>, <<"A","v","e","n","u","e">>, <<"A","v","e">>,
    <<"R","o","a","d">>, <<"R","d">>, <<"B","o","u","l","e","v","a","r","d">>,
    <<"B","l","v","d">>, <<"D","r","i","v","e">>, <<"D","r">>, <<"L","a","n","e">>,
    <<"L","n">>, <<"W","a","y">>, <<"C","o","u","r","t">>, <<"C","t">>,
    <<"P","l","a","c","e">>, <<"P","l">> >>

\* the two patterns of extract_address, matched with re.IGNORECASE
address_patterns == <<
    << Plus(Digits, 1), Plus(Whitespace, 1),
       Plus(Letters \cup Digits \cup Whitespace \cup {","}, 1),
       Alt(StreetTypes),
       Plus(Whitespace \cup {","}, 1),
       Plus(Letters \cup Whitespace \cup {","}, 1),
       Opt(Letters, 2),
       Plus(Whitespace, 1), Cls(Digits, 5, 5) >>,
    << Plus(Digits, 1), Plus(Whitespace, 1),
       Plus(Letters \cup Digits \cup Whitespace \cup {","}, 1),
       Alt(StreetTypes) >> >>

\* mutant of extract_address: the pattern without postal code is tried first
extract_address_short_first(text) ==
    first_pattern_match(text, <<address_patterns[2], address_patterns[1]>>, 1)

extract_address(text) == first_pattern_match(text, address_patterns, 1)

(***************************************************************************)
(* translate_text                                                          *)
(***************************************************************************)
\* a character with ord(c) >= 128 (an accented 'e')
EAcute == "U+00E9"
NonAscii == {EAcute}

\* all(ord(c) < 128 for c in text.replace(' ', ''))
is_ascii(text) == \A i \in DOMAIN text : text[i] \notin NonAscii

\* an English rendering of the text, as the translation service may return it
translated(text) == [i \in DOMAIN text |-> IF text[i] \in NonAscii THEN "e" ELSE text[i]]

\* the values translate_text(text) can return: the text itself when there is
\* no translator, the text is empty or ASCII, or the service raises; what the
\* service returns otherwise
translate_text(text, translator) ==
    IF ~Truthy(text) \/ ~translator THEN {text}
    ELSE IF is_ascii(text) THEN {text}
    ELSE {translated(text), text}

(***************************************************************************)
(* scrape_company_info: the page and its JSON-LD blocks                    *)
(*                                                                         *)
(* A JSON value is [j |-> "str", v |-> text], [j |-> "num", v |-> digits], *)
(* [j |-> "null"], [j |-> "list", v |-> sequence of texts] or              *)
(* [j |-> "obj", v |-> function from keys to JSON values].                 *)
(* json.loads(script.string) gives [kind |-> "error"] when it raises,      *)
(* [kind |-> "other"] for a value that is no dict and                      *)
(* [kind |-> "dict", data |-> function from keys to JSON values].          *)
(***************************************************************************)
JStr(text) == [j |-> "str", v |-> text]
JNum(digits) == [j |-> "num", v |-> digits]
JNull == [j |-> "null"]
JList(texts) == [j |-> "list", v |-> texts]
JObj(f) == [j |-> "obj", v |-> f]

\* the Python value of a JSON value as a record field holds it: a str is its
\* text, null is None, any other value is tagged so that it is no str
py_value(jv) ==
    CASE jv.j = "str" -> jv.v
      [] jv.j = "null" -> None
      [] jv.j = "num" -> <<"#num">> \o jv.v
      [] jv.j = "list" -> IF jv.v = <<>> THEN <<"#list", "[]">> ELSE <<"#list">>
      [] jv.j = "obj" -> IF DOMAIN jv.v = {} THEN <<"#dict", "{}">> ELSE <<"#dict">>

NonStrTags == {"#num", "#list", "#dict"}

RECURSIVE repr_items(_, _)
repr_items(texts, k) ==
    IF k > Len(texts) THEN <<>>
    ELSE (IF k > 1 THEN <<",", " ">> ELSE <<>>) \o <<"'">> \o texts[k] \o <<"'">>
             \o repr_items(texts, k + 1)

\* str(value)
py_str(jv) ==
    CASE jv.j = "str" -> jv.v
      [] jv.j = "null" -> <<"N","o","n","e">>
      [] jv.j = "num" -> jv.v
      [] jv.j = "list" -> <<"[">> \o repr_items(jv.v, 1) \o <<"]">>
      [] jv.j = "obj" -> <<"{", "}">>

Organization == <<"O","r","g","a","n","i","z","a","t","i","o","n">>

\* line 220: data.get('@type') == 'Organization'
\*           or 'Organization' in str(data.get('@type', ''))
is_organization(data) ==
    LET type == IF "@type" \in DOMAIN data THEN data["@type"] ELSE JStr(<<>>)
    IN  \/ type = JStr(Organization)
        \/ contains(py_str(type), Organization)

AddressKeys == <<"streetAddress", "addressLocality", "addressRegion", "postalCode">>

\* lines 230-233: the values of the address keys present, in the fixed order
RECURSIVE addr_parts(_, _)
addr_parts(addr, k) ==
    IF k > Len(AddressKeys) THEN <<>>
    ELSE (IF AddressKeys[k] \in DOMAIN addr THEN <<addr[AddressKeys[k]]>> ELSE <<>>)
             \o addr_parts(addr, k + 1)

\* ', '.join(parts) for parts that are all str
RECURSIVE join_parts(_, _)
join_parts(parts, k) ==
    IF k > Len(parts) THEN <<>>
    ELSE (IF k > 1 THEN <<",", " ">> ELSE <<>>) \o parts[k].v \o join_parts(parts, k + 1)

\* line 235 raises TypeError: ', '.join(addr_parts) with a part that is no str
join_raises(parts) == \E k \in DOMAIN parts : parts[k].j # "str"

\* lines 227-235 are reached with this address value and raise
address_raises(rec, data) ==
    /\ ~Truthy(rec.address)
    /\ "address" \in DOMAIN data
    /\ data["address"].j = "obj"
    /\ join_raises(addr_parts(data["address"].v, 1))

\* mutant of merge_block: the fields are assigned without the test that they
\* are still empty
merge_block_overwrite(rec, block) ==
    IF block.kind # "dict" THEN rec
    ELSE IF ~is_organization(block.data) THEN rec
    ELSE LET data == block.data
             i1 == IF "name" \in DOMAIN data
                   THEN [rec EXCEPT !.company_name = py_value(data["name"])] ELSE rec
             i2 == IF "email" \in DOMAIN data
                   THEN [i1 EXCEPT !.email = py_value(data["email"])] ELSE i1
             i3 == IF "telephone" \in DOMAIN data
                   THEN [i2 EXCEPT !.phone = py_value(data["telephone"])] ELSE i2
         IN  i3

\* lines 216-237, the body of the loop over the JSON-LD scripts for one script:
\* the record after it. An exception leaves the loop body where it is raised
\* (line 236), so the assignments made before it stay.
merge_block(rec, block) ==
    IF block.kind = "error" THEN rec
    ELSE IF block.kind # "dict" THEN rec
    ELSE IF ~is_organization(block.data) THEN rec
    ELSE LET data == block.data
             i1 == IF ~Truthy(rec.company_name) /\ "name" \in DOMAIN data
                   THEN [rec EXCEPT !.company_name = py_value(data["name"])] ELSE rec
             i2 == IF ~Truthy(i1.email) /\ "email" \in DOMAIN data
                   THEN [i1 EXCEPT !.email = py_value(data["email"])] ELSE i1
             i3 == IF ~Truthy(i2.phone) /\ "telephone" \in DOMAIN data
                   THEN [i2 EXCEPT !.phone = py_value(data["telephone"])] ELSE i2
         IN  IF ~Truthy(i3.address) /\ "address" \in DOMAIN data
             THEN LET addr == data["address"]
                  IN  IF addr.j = "obj"
                      THEN LET parts == addr_parts(addr.v, 1)
                           IN  IF parts = <<>> THEN i3
                               ELSE IF join_raises(parts) THEN i3
                               ELSE [i3 EXCEPT !.address = join_parts(parts, 1)]
                      ELSE i3
             ELSE i3

\* no page: the fetch has not happened or has failed
NoSoup == [title |-> None, h1 |-> None, text |-> None]

\* no record is being filled: scrape_company_info is not running
NoInfo == [company_name |-> None, email |-> None, phone |-> None, address |-> None, url |-> None]

\* lines 167-173
blank_info(url) ==
    [company_name |-> None, email |-> None, phone |-> None, address |-> None, url |-> url]

\* ' '.join(text.split())
RECURSIVE collapse_ws(_, _)
collapse_ws(t, i) ==
    IF i > Len(t) THEN <<>>
    ELSE IF t[i] \in Whitespace
         THEN (IF t[i - 1] \in Whitespace THEN <<>> ELSE <<" ">>) \o collapse_ws(t, i + 1)
         ELSE <<t[i]>> \o collapse_ws(t, i + 1)

normalize_ws(text) == collapse_ws(str_strip(text), 1)

\* mutant of scrape_text: the first heading is preferred to the title
scrape_text_h1_first(rec, page) ==
    LET text == normalize_ws(page.text)
        name == IF page.h1 # None THEN str_strip(page.h1) ELSE None
        name2 == IF page.title # None /\ ~Truthy(name) THEN str_strip(page.title) ELSE name
    IN  [rec EXCEPT !.company_name = name2,
                     !.email = extract_email(text),
                     !.phone = extract_phone(text),
                     !.address = extract_address(text)]

\* lines 191-211 on a fetched page [title, h1, text]: title and h1 are the
\* text of the first <title> and <h1> tag, None when the page has no such tag
scrape_text(rec, page) ==
    LET text == normalize_ws(page.text)
        name == IF page.title # None THEN str_strip(page.title) ELSE None
        name2 == IF page.h1 # None /\ ~Truthy(name) THEN str_strip(page.h1) ELSE name
    IN  [rec EXCEPT !.company_name = name2,
                     !.email = extract_email(text),
                     !.phone = extract_phone(text),
                     !.address = extract_address(text)]

\* mutant of snippet_fallback: an email found in the snippet replaces the one
\* the scrape found
snippet_fallback_overwrite(rec, result) ==
    LET i1 == IF ~Truthy(rec.company_name)
              THEN [rec EXCEPT !.company_name = result.title] ELSE rec
        e == extract_email(result.snippet)
        i2 == IF ~Truthy(i1.email) \/ e # None THEN [i1 EXCEPT !.email = e] ELSE i1
        i3 == IF ~Truthy(i2.phone)
              THEN [i2 EXCEPT !.phone = extract_phone(result.snippet)] ELSE i2
        i4 == IF ~Truthy(i3.address)
              THEN [i3 EXCEPT !.address = extract_address(result.snippet)] ELSE i3
    IN  i4

\* mutant of snippet_fallback: the snippet is not used for the email
snippet_fallback_no_email(rec, result) ==
    LET i1 == IF ~Truthy(rec.company_name)
              THEN [rec EXCEPT !.company_name = result.title] ELSE rec
    IN  i1

\* lines 357-366: the search result fills what the scrape left empty
snippet_fallback(rec, result) ==
    LET i1 == IF ~Truthy(rec.company_name)
              THEN [rec EXCEPT !.company_name = result.title] ELSE rec
        i2 == IF ~Truthy(i1.email)
              THEN [i1 EXCEPT !.email = extract_email(result.snippet)] ELSE i1
        i3 == IF ~Truthy(i2.phone)
              THEN [i2 EXCEPT !.phone = extract_phone(result.snippet)] ELSE i2
        i4 == IF ~Truthy(i3.address)
              THEN [i3 EXCEPT !.address = extract_address(result.snippet)] ELSE i3
    IN  i4

(***************************************************************************)
(* is_valid_record                                                         *)
(***************************************************************************)
DotCom == <<".","c","o","m">>
DotOrg == <<".","o","r","g">>

blocked_domains == {
    <<"f","a","c","e","b","o","o","k">> \o DotCom,
    <<"t","w","i","t","t","e","r">> \o DotCom,
    <<"l","i","n","k","e","d","i","n">> \o DotCom,
    <<"i","n","s","t","a","g","r","a","m">> \o DotCom,
    <<"y","o","u","t","u","b","e">> \o DotCom,
    <<"p","i","n","t","e","r","e","s","t">> \o DotCom,
    <<"t","i","k","t","o","k">> \o DotCom,
    <<"r","e","d","d","i","t">> \o DotCom,
    <<"y","e","l","p">> \o DotCom,
    <<"y","e","l","l","o","w","p","a","g","e","s">> \o DotCom,
    <<"t","r","i","p","a","d","v","i","s","o","r">> \o DotCom,
    <<"f","o","u","r","s","q","u","a","r","e">> \o DotCom,
    <<"m","a","n","t","a">> \o DotCom,
    <<"b","b","b">> \o DotOrg,
    <<"a","n","g","i","e","s","l","i","s","t">> \o DotCom,
    <<"t","h","u","m","b","t","a","c","k">> \o DotCom,
    <<"m","a","p","q","u","e","s","t">> \o DotCom,
    <<"w","h","i","t","e","p","a","g","e","s">> \o DotCom,
    <<"w","i","k","i","p","e","d","i","a">> \o DotOrg,
    <<"m","e","d","i","u","m">> \o DotCom,
    <<"a","m","a","z","o","n">> \o DotCom,
    <<"e","b","a","y">> \o DotCom,
    <<"e","t","s","y">> \o DotCom,
    <<"c","r","a","i","g","s","l","i","s","t">> \o DotOrg,
    <<"i","n","d","e","e","d">> \o DotCom,
    <<"g","l","a","s","s","d","o","o","r">> \o DotCom }

\* mutant of is_blocked: the suffix test without the separating '.'
is_blocked_suffix(domain) ==
    \E blocked \in blocked_domains : endswith(domain, blocked)

\* lines 296-302: the domain is a blocked domain or a subdomain of one
is_blocked(domain) ==
    \/ domain \in blocked_domains
    \/ \E blocked \in blocked_domains : endswith(domain, <<".">> \o blocked)

\* is_valid_record(info): False for a falsy url and for a blocked domain; an
\* exception of urlparse is swallowed and the record is kept
is_valid_record(rec) ==
    IF ~Truthy(rec.url) THEN FALSE
    ELSE With(normalized_domain(rec.url), LAMBDA n :
             IF n.ok /\ is_blocked(n.domain) THEN FALSE ELSE TRUE)

(***************************************************************************)
(* filter_records and the deduplication loop of search_and_extract         *)
(***************************************************************************)
Fields == {"company_name", "email", "phone", "address", "url"}

\* isinstance(value, str), for the values a record holds
is_str(v) == v # None /\ (v = <<>> \/ v[1] \notin NonStrTags)

\* line 326: the values that filter_records resets to None
CleanWords == { <<"n","o","n","e">>, <<"n","u","l","l">>, <<"n","/","a">> }

\* lines 324-327: clean_record = record.copy() with placeholder values reset
clean_record(record) ==
    [k \in DOMAIN record |->
        IF is_str(record[k]) /\ str_lower(str_strip(record[k])) \in CleanWords
        THEN None ELSE record[k]]

\* lines 384-397: the key a record's url is remembered under in seen_domains:
\* the normalized domain, or the url itself when urlparse raised
dedup_key(url) ==
    With(normalized_domain(url), LAMBDA n : IF n.ok THEN n.domain ELSE url)

\* mutant of dedup_iteration: a duplicate's email is merged into the record
\* kept for its domain when that record has none
dedup_iteration_merge(record, unique, seen) ==
    LET url == record.url
        key == dedup_key(url)
        same == [unique_list |-> unique, seen_domains |-> seen]
    IN  IF ~Truthy(url) \/ key = <<>> THEN same
        ELSE IF key \notin seen
             THEN [unique_list |-> Append(unique, record), seen_domains |-> seen \cup {key}]
             ELSE [unique_list |->
                       [k \in DOMAIN unique |->
                           IF dedup_key(unique[k].url) = key /\ ~Truthy(unique[k].email)
                           THEN [unique[k] EXCEPT !.email = record.email]
                           ELSE unique[k]],
                   seen_domains |-> seen]

\* lines 380-397, one iteration of the deduplication loop on `record`:
\* the new [unique_list, seen_domains]
dedup_iteration(record, unique, seen) ==
    LET url == record.url
        same == [unique_list |-> unique, seen_domains |-> seen]
    IN  IF ~Truthy(url) THEN same
        ELSE With(normalized_domain(url), LAMBDA n :
             IF n.ok
             THEN IF n.domain # <<>> /\ n.domain \notin seen
                  THEN [unique_list |-> Append(unique, record),
                        seen_domains |-> seen \cup {n.domain}]
                  ELSE same
             ELSE IF url \notin seen
                  THEN [unique_list |-> Append(unique, record),
                        seen_domains |-> seen \cup {url}]
                  ELSE same)

\* lines 322-330: one iteration of the loop of filter_records
FilterStep ==
    /\ pc = "filter"
    /\ fi <= Len(company_info_list)
    /\ \E clean \in {clean_record(company_info_list[fi])} :
           filtered_list' = IF is_valid_record(clean)
                            THEN Append(filtered_list, clean)
                            ELSE filtered_list
    /\ fi' = fi + 1
    /\ UNCHANGED <<pc, company_info_list, unique_list, seen_domains, di>>
    /\ UNCHANGED <<buildVars, urlVars, sideVars>>

\* lines 332, 372-377: filter_records returns; the deduplication loop starts
FilterReturn ==
    /\ pc = "filter"
    /\ fi > Len(company_info_list)
    /\ pc' = "dedup"
    /\ unique_list' = <<>>
    /\ seen_domains' = {}
    /\ di' = 1
    /\ UNCHANGED <<company_info_list, filtered_list, fi>>
    /\ UNCHANGED <<buildVars, urlVars, sideVars>>

\* lines 379-397: one iteration of the deduplication loop
DedupStep ==
    /\ pc = "dedup"
    /\ di <= Len(filtered_list)
    /\ LET r == dedup_iteration(filtered_list[di], unique_list, seen_domains)
       IN  /\ unique_list' = r.unique_list
           /\ seen_domains' = r.seen_domains
    /\ di' = di + 1
    /\ UNCHANGED <<pc, company_info_list, filtered_list, fi>>
    /\ UNCHANGED <<buildVars, urlVars, sideVars>>

\* lines 399-401: search_and_extract returns unique_list
DedupReturn ==
    /\ pc = "dedup"
    /\ di > Len(filtered_list)
    /\ pc' = "done"
    /\ UNCHANGED <<company_info_list, filtered_list, unique_list, seen_domains, fi, di>>
    /\ UNCHANGED <<buildVars, urlVars, sideVars>>

(***************************************************************************)
(* Text used by the inputs                                                 *)
(***************************************************************************)
Http == <<"h","t","t","p",":","/","/">>
Https == <<"h","t","t","p","s",":","/","/">>
AcmeCom == <<"a","c","m","e">> \o DotCom
XCom == <<"x">> \o DotCom
FacebookCom == <<"f","a","c","e","b","o","o","k">> \o DotCom
InfoAtAcme == <<"i","n","f","o","@">> \o AcmeCom
AcmeCo == <<"A","c","m","e"," ","C","o">>
NA == <<"N","/","A">>

UrlAcmeAbout == Https \o AcmeCom \o <<"/","a","b","o","u","t">>
UrlWwwAcme == Http \o Www \o AcmeCom
UrlX == Https \o XCom
UrlWwwX == Https \o Www \o XCom
UrlNoScheme == AcmeCom
UrlMalformed == Http \o <<"[","b","a","d">>
UrlAcmePort == Http \o AcmeCom \o <<":","8","0">>
UrlFacebookPage == Https \o Www \o FacebookCom \o <<"/","S","o","m","e","P","a","g","e">>
UrlYelpBiz == Https \o <<"s","u","b",".","y","e","l","p">> \o DotCom \o <<"/","b","i","z","/","x">>
UrlAcmeWidgets == Https \o <<"a","c","m","e","w","i","d","g","e","t","s">> \o DotCom

Rec(name, email, url) ==
    [company_name |-> name, email |-> email, phone |-> None, address |-> None, url |-> url]

(***************************************************************************)
(* SpecDedup: the filter and deduplication stages on a list of records     *)
(***************************************************************************)
\* the longest list of records the stages are run on
MaxRecords == 3

\* the records the list is drawn from: duplicates by domain with poorer and
\* richer contact data, a URL without scheme, a URL urlparse rejects, a URL
\* with a port, a blocked domain, a placeholder name and an empty URL
DedupRecords == {
    Rec(AcmeCo, None, UrlAcmeAbout),
    Rec(AcmeCo, InfoAtAcme, UrlWwwAcme),
    Rec(NA, InfoAtAcme, UrlAcmeAbout),
    Rec(AcmeCo, None, UrlX),
    Rec(AcmeCo, InfoAtAcme, UrlWwwX),
    Rec(AcmeCo, None, UrlNoScheme),
    Rec(AcmeCo, None, UrlMalformed),
    Rec(AcmeCo, None, UrlAcmePort),
    Rec(AcmeCo, InfoAtAcme, UrlFacebookPage),
    Rec(AcmeCo, InfoAtAcme, <<>>) }

SeqsUpTo(S, n) == UNION {[1..k -> S] : k \in 0..n}

UrlIdle ==
    /\ u_parts = [scheme |-> <<>>, userinfo |-> <<>>, host |-> <<>>, port |-> <<>>, path |-> <<>>]
    /\ u_rec = Rec(None, None, <<>>)
    /\ u_pc = "idle"
    /\ u_key = None
    /\ u_valid = FALSE
    /\ u_rekey = None

ExtractIdle ==
    /\ x_text = <<>>
    /\ x_done = {}
    /\ x_email = None
    /\ x_phone = None
    /\ x_address = None

SearchIdle ==
    /\ max_results = 0
    /\ results = <<>>
    /\ req_i = 0
    /\ s_pc = "idle"
    /\ s_requests = <<>>
    /\ s_received = <<>>
    /\ s_failed = 0
    /\ s_returned = <<>>
    /\ s_version = "v3"

MainIdle ==
    /\ m_version = "v3"
    /\ m_pc = "idle"
    /\ api_key = None
    /\ search_engine_id = None
    /\ keywords = <<>>
    /\ max_entries = 0
    /\ company_info = <<>>
    /\ m_ran = FALSE
    /\ m_requests = 0
    /\ m_written = FALSE
    /\ exit_status = {}

HtmlIdle ==
    /\ h_version = "v3"
    /\ h_pc = "idle"
    /\ h_keywords = <<>>
    /\ h_location = <<>>
    /\ h_list = <<>>
    /\ h_i = 1
    /\ html = <<>>

SideIdle == ExtractIdle /\ SearchIdle /\ MainIdle /\ HtmlIdle

BuildIdle ==
    /\ search_results = <<>>
    /\ ri = 1
    /\ info = NoInfo
    /\ json_ld = <<>>
    /\ fetch_log = <<>>
    /\ has_translator = FALSE
    /\ soup = NoSoup
    /\ from_text = NoInfo
    /\ net_log = <<>>

InitDedup ==
    /\ pc = "filter"
    /\ company_info_list \in SeqsUpTo(DedupRecords, MaxRecords)
    /\ filtered_list = <<>>
    /\ unique_list = <<>>
    /\ seen_domains = {}
    /\ fi = 1
    /\ di = 1
    /\ BuildIdle
    /\ UrlIdle
    /\ SideIdle

NextDedup == FilterStep \/ FilterReturn \/ DedupStep \/ DedupReturn

SpecDedup == InitDedup /\ [][NextDedup]_vars

\* the deduplication loop has consumed this prefix of its input
DedupInput == SubSeq(filtered_list, 1, di - 1)

StrictlyIncreasing(f) == \A a, b \in DOMAIN f : a < b => f[a] < f[b]

FirstIndexWithKey(input, key) ==
    CHOOSE j \in DOMAIN input :
        /\ dedup_key(input[j].url) = key
        /\ \A i \in DOMAIN input : dedup_key(input[i].url) = key => j <= i

\* C1: the deduplication stage returns a subsequence of its input (same
\* relative order, records unchanged) in which no two records have the same
\* domain key, and the record kept for a key is the earliest input record with
\* that key; https://acme.com/about followed by http://www.acme.com keeps only
\* the first, and so does x.com followed by www.x.com.
C1_DedupKeepsFirst ==
    pc \in {"dedup", "done"} =>
        /\ \E f \in [DOMAIN unique_list -> DOMAIN DedupInput] :
              /\ StrictlyIncreasing(f)
              /\ \A k \in DOMAIN unique_list : unique_list[k] = DedupInput[f[k]]
        /\ \A a, b \in DOMAIN unique_list :
              a # b => dedup_key(unique_list[a].url) # dedup_key(unique_list[b].url)
        /\ \A k \in DOMAIN unique_list :
              unique_list[k] =
                  DedupInput[FirstIndexWithKey(DedupInput, dedup_key(unique_list[k].url))]
        /\ (/\ pc = "done"
            /\ Len(filtered_list) = 2
            /\ \/ /\ filtered_list[1].url = UrlAcmeAbout
                  /\ filtered_list[2].url = UrlWwwAcme
               \/ /\ filtered_list[1].url = UrlX
                  /\ filtered_list[2].url = UrlWwwX)
           => unique_list = <<filtered_list[1]>>

\* C1 witness: a poorer record, a richer duplicate of it by domain and a
\* record of another domain went through the loop; the first and third are kept.
C1_Witness ==
    /\ pc = "done"
    /\ filtered_list = << Rec(AcmeCo, None, UrlAcmeAbout),
                          Rec(AcmeCo, InfoAtAcme, UrlWwwAcme),
                          Rec(AcmeCo, InfoAtAcme, UrlWwwX) >>
    /\ unique_list = << Rec(AcmeCo, None, UrlAcmeAbout), Rec(AcmeCo, InfoAtAcme, UrlWwwX) >>

\* the key of section 4.4/4.6: the normalized host, or the trimmed URL string
\* when the URL cannot be normalized to a host
C2_Key(url) ==
    LET p == urlparse_netloc(url)
    IN  IF p.ok /\ p.netloc # <<>> THEN strip_www(p.netloc) ELSE str_strip(url)

\* C2: the deduplication stage keeps every record whose key was not seen
\* earlier in the run; a record whose URL has no host or does not parse is
\* keyed by its URL string and kept when that string was not seen.
C2_KeepsEveryUnseenKey ==
    pc = "done" =>
        \A j \in DOMAIN filtered_list :
            (\A i \in 1..(j - 1) : C2_Key(filtered_list[i].url) # C2_Key(filtered_list[j].url))
            => \E k \in DOMAIN unique_list : unique_list[k] = filtered_list[j]

(***************************************************************************)
(* Spec: search_and_extract from the search results to the returned list   *)
(***************************************************************************)
\* the most search results of a run, and the most JSON-LD scripts of a page
MaxResults == 1
MaxBlocks == 2

UrlAcme == Https \o AcmeCom
SnippetAcme == <<"C","o","n","t","a","c","t"," ","u","s"," ","a","t"," ">> \o InfoAtAcme
BetaInc == <<"B","e","t","a"," ","I","n","c">>
Heading == <<"H","e","a","d","i","n","g">>
Cafe == <<"C","a","f",EAcute>>
GammaLLC == <<"G","a","m","m","a"," ","L","L","C">>
SalesAtBeta == <<"s","a","l","e","s","@","b","e","t","a">> \o DotOrg
HelloAtGamma == <<"h","e","l","l","o","@","g","a","m","m","a",".","i","o">>
MainStreet == <<"1","2"," ","M","a","i","n"," ","S","t","r","e","e","t">>
Phone555 == <<"5","5","5","-","1","2","3","-","4","5","6","7">>
Phone44 == <<"+","4","4"," ","2","0"," ","7","9","4","6"," ","0","9","5","8">>
OneMainSt == <<"1"," ","M","a","i","n"," ","S","t">>
Springfield == <<"S","p","r","i","n","g","f","i","e","l","d">>
PageText == SalesAtBeta \o <<" ">> \o MainStreet \o <<","," "," ","c","a","l","l"," ">> \o Phone555

\* the search results a run is drawn from
ResultPool == {
    [title |-> AcmeCo, link |-> UrlAcme, snippet |-> SnippetAcme],
    [title |-> NA, link |-> UrlWwwAcme, snippet |-> <<>>] }

\* the pages a fetch can return: no title, heading or contact text; all of
\* them; a heading only; a title that is not ASCII
PagePool == {
    [title |-> None, h1 |-> None, text |-> <<>>],
    [title |-> BetaInc, h1 |-> Heading, text |-> PageText],
    [title |-> <<>>, h1 |-> Heading, text |-> <<>>],
    [title |-> Cafe, h1 |-> None, text |-> <<>>] }

\* the JSON-LD scripts a page can hold: a malformed payload, a block of
\* another type, Organization blocks with all fields, with an email
\* and a telephone only (the type given as a list), with a name and an address
\* whose postal code is a number, and with a name and an address given as text
BlockMalformed == [kind |-> "error"]
BlockPerson ==
    [kind |-> "dict",
     data |-> ("@type" :> JStr(<<"P","e","r","s","o","n">>)) @@ ("name" :> JStr(Heading))]
BlockFull ==
    [kind |-> "dict",
     data |-> ("@type" :> JStr(Organization)) @@ ("name" :> JStr(GammaLLC))
              @@ ("email" :> JStr(HelloAtGamma)) @@ ("telephone" :> JStr(Phone44))
              @@ ("address" :> JObj(("streetAddress" :> JStr(OneMainSt))
                                    @@ ("addressLocality" :> JStr(Springfield))))]
BlockEmailTel ==
    [kind |-> "dict",
     data |-> ("@type" :> JList(<<<<"T","h","i","n","g">>, Organization>>))
              @@ ("email" :> JStr(HelloAtGamma)) @@ ("telephone" :> JStr(Phone44))]
BlockBadAddress ==
    [kind |-> "dict",
     data |-> ("@type" :> JStr(Organization)) @@ ("name" :> JStr(GammaLLC))
              @@ ("address" :> JObj(("streetAddress" :> JStr(OneMainSt))
                                    @@ ("postalCode" :> JNum(<<"6","2","7","0","4">>))))]
BlockTextAddress ==
    [kind |-> "dict",
     data |-> ("@type" :> JStr(Organization)) @@ ("name" :> JStr(BetaInc))
              @@ ("address" :> JStr(OneMainSt))]

BlockPool ==
    {BlockMalformed, BlockPerson, BlockFull, BlockEmailTel, BlockBadAddress, BlockTextAddress}

Init ==
    /\ pc = "loop"
    /\ search_results \in SeqsUpTo(ResultPool, MaxResults)
    /\ has_translator \in BOOLEAN
    /\ ri = 1
    /\ info = NoInfo
    /\ json_ld = <<>>
    /\ fetch_log = <<>>
    /\ soup = NoSoup
    /\ from_text = NoInfo
    /\ net_log = <<>>
    /\ company_info_list = <<>>
    /\ filtered_list = <<>>
    /\ unique_list = <<>>
    /\ seen_domains = {}
    /\ fi = 1
    /\ di = 1
    /\ UrlIdle
    /\ SideIdle

\* entries of net_log: the request of line 176 for a URL, the delay of line 247
Get(url) == [op |-> "get", url |-> url]
Sleep == [op |-> "sleep", url |-> <<>>]

\* lines 352-354, 167-173: the next search result; scrape_company_info starts
ScrapeStart ==
    /\ pc = "loop"
    /\ ri <= Len(search_results)
    /\ info' = blank_info(search_results[ri].link)
    /\ json_ld' = <<>>
    /\ soup' = NoSoup
    /\ from_text' = NoInfo
    /\ pc' = "fetch"
    /\ UNCHANGED <<search_results, ri, fetch_log, has_translator, net_log>>
    /\ UNCHANGED <<company_info_list, filtered_list, unique_list, seen_domains, fi, di>>
    /\ UNCHANGED <<urlVars, sideVars>>

\* mutant of FetchFail: a failed fetch ends the loop over the search results
FetchFailAborts ==
    /\ pc = "fetch"
    /\ fetch_log' = Append(fetch_log, FALSE)
    /\ net_log' = Append(net_log, Get(info.url))
    /\ ri' = Len(search_results) + 1
    /\ info' = NoInfo
    /\ pc' = "loop"
    /\ UNCHANGED <<search_results, json_ld, has_translator, soup, from_text>>
    /\ UNCHANGED <<company_info_list, filtered_list, unique_list, seen_domains, fi, di>>
    /\ UNCHANGED <<urlVars, sideVars>>

\* lines 175-184, 249-252: the request, the status check or the parse raises;
\* scrape_company_info returns the record as it is
FetchFail ==
    /\ pc = "fetch"
    /\ fetch_log' = Append(fetch_log, FALSE)
    /\ net_log' = Append(net_log, Get(info.url))
    /\ pc' = "fallback"
    /\ UNCHANGED <<search_results, ri, info, json_ld, has_translator, soup, from_text>>
    /\ UNCHANGED <<company_info_list, filtered_list, unique_list, seen_domains, fi, di>>
    /\ UNCHANGED <<urlVars, sideVars>>

\* lines 175-214: the page is fetched and parsed; name and contact data are
\* taken from its title, heading and text
FetchOkFrom(pages) ==
    /\ pc = "fetch"
    /\ \E p \in pages :
          /\ soup' = p
          /\ info' = scrape_text(info, p)
          /\ from_text' = info'
    /\ fetch_log' = Append(fetch_log, TRUE)
    /\ net_log' = Append(net_log, Get(info.url))
    /\ pc' = "json_ld"
    /\ UNCHANGED <<search_results, ri, json_ld, has_translator>>
    /\ UNCHANGED <<company_info_list, filtered_list, unique_list, seen_domains, fi, di>>
    /\ UNCHANGED <<urlVars, sideVars>>

FetchOk == FetchOkFrom(PagePool)

\* mutant of MergeBlock: only the first Organization block of a page is applied
MergeBlockFirstOnly ==
    /\ pc = "json_ld"
    /\ Len(json_ld) < MaxBlocks
    /\ \E block \in BlockPool :
          /\ info' = IF \E k \in DOMAIN json_ld :
                           json_ld[k].kind = "dict" /\ is_organization(json_ld[k].data)
                     THEN info
                     ELSE merge_block(info, block)
          /\ json_ld' = Append(json_ld, block)
    /\ UNCHANGED <<search_results, ri, fetch_log, has_translator, soup, from_text, net_log>>
    /\ UNCHANGED dedupVars
    /\ UNCHANGED <<urlVars, sideVars>>

\* lines 215-237: one iteration of the loop over the page's JSON-LD scripts
MergeBlockFrom(blocks) ==
    /\ pc = "json_ld"
    /\ Len(json_ld) < MaxBlocks
    /\ \E block \in blocks :
          /\ info' = merge_block(info, block)
          /\ json_ld' = Append(json_ld, block)
    /\ UNCHANGED <<search_results, ri, fetch_log, has_translator, soup, from_text, net_log>>
    /\ UNCHANGED dedupVars
    /\ UNCHANGED <<urlVars, sideVars>>

MergeBlock == MergeBlockFrom(BlockPool)

\* lines 239-252: the page has no further script; name and address are
\* translated, the courtesy delay is slept and the record is returned
ScrapeReturn ==
    /\ pc = "json_ld"
    /\ \E n \in translate_text(info.company_name, has_translator),
          a \in translate_text(info.address, has_translator) :
          info' = [info EXCEPT !.company_name = n, !.address = a]
    /\ net_log' = Append(net_log, Sleep)
    /\ pc' = "fallback"
    /\ UNCHANGED <<search_results, ri, json_ld, fetch_log, has_translator, soup, from_text>>
    /\ UNCHANGED <<company_info_list, filtered_list, unique_list, seen_domains, fi, di>>
    /\ UNCHANGED <<urlVars, sideVars>>

\* lines 356-368: the search result fills the empty fields and the record is
\* appended
Fallback ==
    /\ pc = "fallback"
    /\ company_info_list' =
           Append(company_info_list, snippet_fallback(info, search_results[ri]))
    /\ ri' = ri + 1
    /\ info' = NoInfo
    /\ pc' = "loop"
    /\ UNCHANGED <<search_results, json_ld, fetch_log, has_translator, soup, from_text, net_log>>
    /\ UNCHANGED <<filtered_list, unique_list, seen_domains, fi, di>>
    /\ UNCHANGED <<urlVars, sideVars>>

\* lines 370-372: every search result is handled; filter_records is called
LoopExit ==
    /\ pc = "loop"
    /\ ri > Len(search_results)
    /\ pc' = "filter"
    /\ filtered_list' = <<>>
    /\ fi' = 1
    /\ json_ld' = <<>>
    /\ soup' = NoSoup
    /\ from_text' = NoInfo
    /\ UNCHANGED <<company_info_list, unique_list, seen_domains, di>>
    /\ UNCHANGED <<search_results, ri, info, fetch_log, has_translator, net_log>>
    /\ UNCHANGED <<urlVars, sideVars>>

Next ==
    \/ ScrapeStart \/ FetchFail \/ FetchOk \/ MergeBlock \/ ScrapeReturn \/ Fallback
    \/ LoopExit \/ FilterStep \/ FilterReturn \/ DedupStep \/ DedupReturn

Spec == Init /\ [][Next]_vars

ContactFields == {"company_name", "email", "phone", "address"}

\* every contact field that is non-empty in `old` has the same value in `new`
KeptFields(old, new) == \A f \in ContactFields : Truthy(old[f]) => new[f] = old[f]

LastOf(seq) == seq[Len(seq)]

\* the clauses of the set-once rule that hold of every step: the merge of a
\* JSON-LD block, the snippet fallback and the deduplication
C6_FillSteps ==
    /\ (pc \in {"fetch", "json_ld"} /\ pc' = "json_ld") => KeptFields(info, info')
    /\ (pc = "fallback" /\ pc' = "loop") => KeptFields(info, LastOf(company_info_list'))
    /\ \A k \in DOMAIN company_info_list : company_info_list'[k] = company_info_list[k]
    /\ (pc = "filter" /\ pc' = "filter") =>
           \A k \in DOMAIN filtered_list : filtered_list'[k] = filtered_list[k]
    /\ (pc = "dedup" /\ pc' = "dedup") =>
           /\ \A k \in DOMAIN unique_list : unique_list'[k] = unique_list[k]
           /\ Len(unique_list') > Len(unique_list) => LastOf(unique_list') = filtered_list[di]

\* C6 as stated: once a contact field of a record is non-empty, no later step
\* (structured-data merge, translation, snippet fallback, filter_records
\* cleaning, deduplication) changes it or resets it to absent.
C6_SetOnce ==
    [][ /\ C6_FillSteps
        /\ (pc = "json_ld" /\ pc' = "fallback") => KeptFields(info, info')
        /\ (pc = "filter" /\ Len(filtered_list') > Len(filtered_list)) =>
               KeptFields(company_info_list[fi], LastOf(filtered_list'))
      ]_vars

\* C6 amended: the structured-data merge, the snippet fallback and the
\* deduplication never change a non-empty field; the translation step changes
\* only a company_name or address that is not ASCII, and only with a
\* translator; filter_records changes only a field whose trimmed, lower-cased
\* value is 'none', 'null' or 'n/a', and resets it to absent.
C6_SetOnceExceptTranslateClean ==
    [][ /\ C6_FillSteps
        /\ (pc = "json_ld" /\ pc' = "fallback") =>
               \A f \in ContactFields :
                   (Truthy(info[f]) /\ info'[f] # info[f]) =>
                       /\ f \in {"company_name", "address"}
                       /\ has_translator
                       /\ ~is_ascii(info[f])
        /\ (pc = "filter" /\ Len(filtered_list') > Len(filtered_list)) =>
               \A f \in ContactFields :
                   LET old == company_info_list[fi][f]
                       new == LastOf(filtered_list')[f]
                   IN  (Truthy(old) /\ new # old) =>
                           /\ str_lower(str_strip(old)) \in CleanWords
                           /\ new = None
      ]_vars

\* C6 witness: name and email were taken from the page, the search result
\* offered another name and another email, and the record came out of the
\* fallback, the filter and the deduplication with the values of the page
C6_Witness ==
    /\ pc = "done"
    /\ fetch_log = <<TRUE>>
    /\ search_results = <<[title |-> AcmeCo, link |-> UrlAcme, snippet |-> SnippetAcme]>>
    /\ Len(unique_list) = 1
    /\ unique_list[1].company_name = BetaInc
    /\ unique_list[1].email = SalesAtBeta

\* C7: the structured-data merge never overwrites a populated field: a field
\* that is non-empty before a block is applied has the same value afterwards,
\* even when the block supplies another value; only empty fields change.
C7_MergeNeverOverwrites ==
    [][ (pc = "json_ld" /\ pc' = "json_ld") =>
            /\ KeptFields(info, info')
            /\ info'.url = info.url
      ]_vars

\* C7 witness: an Organization block with a name, an email, a telephone and an
\* address was applied to a record that had all four from the page; the record
\* still holds the values of the page
C7_Witness ==
    /\ pc = "json_ld"
    /\ json_ld = <<BlockFull>>
    /\ info.company_name = BetaInc
    /\ info.email = SalesAtBeta
    /\ info.phone = Phone555
    /\ info.address = MainStreet

\* the block is a dict whose type contains 'Organization'
Qualifies(block) == block.kind = "dict" /\ is_organization(block.data)

BlockFails(rec, block) ==
    \/ block.kind = "error"
    \/ Qualifies(block) /\ address_raises(rec, block.data)

C10_FetchFailure ==
    /\ (pc = "fallback" /\ ~fetch_log[ri]) =>
           info = [company_name |-> None, email |-> None, phone |-> None,
                   address |-> None, url |-> search_results[ri].link]
    /\ \A k \in DOMAIN company_info_list :
           (k \in DOMAIN fetch_log /\ ~fetch_log[k]) =>
               company_info_list[k] =
                   [company_name |-> search_results[k].title,
                    email |-> extract_email(search_results[k].snippet),
                    phone |-> extract_phone(search_results[k].snippet),
                    address |-> extract_address(search_results[k].snippet),
                    url |-> search_results[k].link]
    /\ (/\ pc = "done"
        /\ search_results = <<[title |-> AcmeCo, link |-> UrlAcme, snippet |-> SnippetAcme]>>
        /\ fetch_log = <<FALSE>>) =>
           /\ unique_list = <<[company_name |-> AcmeCo, email |-> InfoAtAcme,
                               phone |-> None, address |-> None, url |-> UrlAcme]>>
           /\ unique_list = company_info_list

\* C10 witness: the run on that one result, with a failed fetch, returned the
\* record
C10_Witness ==
    /\ pc = "done"
    /\ search_results = <<[title |-> AcmeCo, link |-> UrlAcme, snippet |-> SnippetAcme]>>
    /\ fetch_log = <<FALSE>>
    /\ unique_list = <<[company_name |-> AcmeCo, email |-> InfoAtAcme,
                        phone |-> None, address |-> None, url |-> UrlAcme]>>

(***************************************************************************)
(* C11: the sources of a built record                                      *)
(***************************************************************************)
\* the first non-empty value of a sequence of values, `default` if none is
FirstNonEmpty(vals, default) ==
    With(vals, LAMBDA v :
        IF \E i \in DOMAIN v : Truthy(v[i])
        THEN v[CHOOSE i \in DOMAIN v : Truthy(v[i]) /\ \A j \in 1..(i - 1) : ~Truthy(v[j])]
        ELSE default)

\* what the page text gave for a field (lines 205-211), None when no page
\* was fetched
PageValue(f) == from_text[f]

\* what an Organization block gives for a field
BlockValue(f, b) ==
    LET key == CASE f = "company_name" -> "name"
                 [] f = "email" -> "email"
                 [] f = "phone" -> "telephone"
                 [] f = "address" -> "address"
    IN  IF key \notin DOMAIN b.data THEN None
        ELSE IF f # "address" THEN py_value(b.data[key])
        ELSE IF b.data[key].j # "obj" THEN None
        ELSE LET parts == addr_parts(b.data[key].v, 1)
             IN  IF parts = <<>> \/ join_raises(parts) THEN None ELSE join_parts(parts, 1)

\* what the search snippet gives for a field
SnippetValue(f, r) ==
    CASE f = "email" -> extract_email(r.snippet)
      [] f = "phone" -> extract_phone(r.snippet)
      [] f = "address" -> extract_address(r.snippet)

OrgBlocks(blocks) == SelectSeq(blocks, Qualifies)

\* the values of a field in the Organization blocks, in document order
BlockValues(f, blocks) ==
    With(OrgBlocks(blocks), LAMBDA org : [k \in DOMAIN org |-> BlockValue(f, org[k])])

\* the value of a field in the first Organization block only
FirstBlockValue(f, blocks) ==
    IF OrgBlocks(blocks) = <<>> THEN <<>> ELSE <<BlockValue(f, OrgBlocks(blocks)[1])>>

\* the record built from the last search result handled, with its sources
LastBuilt == company_info_list[ri - 1]
LastResult == search_results[ri - 1]

ScrapedAs(v, pre, translatable) ==
    \/ v = pre
    \/ translatable /\ has_translator /\ ~is_ascii(pre) /\ v = translated(pre)

UrlSchemes == { <<>>, Http, Https }
UrlUserinfos == { <<>>, <<"u","@">> }
UrlHosts == {
    <<>>,
    AcmeCom,
    Www \o AcmeCom,
    <<"W","W","W",".","A","c","m","e",".","C","O","M">>,
    Www \o Www \o XCom,
    FacebookCom,
    Www \o FacebookCom,
    <<"s","u","b",".","y","e","l","p">> \o DotCom,
    <<"m","y","y","e","l","p">> \o DotCom,
    <<"a","c","m","e","w","i","d","g","e","t","s">> \o DotCom,
    <<"[","b","a","d">> }
UrlPorts == { <<>>, <<":","8","0">> }
UrlPaths == { <<>>, <<"/","S","o","m","e","P","a","g","e">>, <<"/","b","i","z","/","x">>, <<"?","q">> }

UrlParts == [scheme : UrlSchemes, userinfo : UrlUserinfos, host : UrlHosts,
             port : UrlPorts, path : UrlPaths]

assemble(p) == p.scheme \o p.userinfo \o p.host \o p.port \o p.path

\* "turning the key back into a URL" (the specification's words; the program
\* has no such function): a scheme is put in front of the key
normalize_as_url(key) == Http \o key

DedupIdle ==
    /\ pc = "idle"
    /\ company_info_list = <<>>
    /\ filtered_list = <<>>
    /\ unique_list = <<>>
    /\ seen_domains = {}
    /\ fi = 1
    /\ di = 1

InitUrl ==
    /\ u_parts \in UrlParts
    /\ \E name \in {None, AcmeCo}, email \in {None, InfoAtAcme} :
           u_rec = Rec(name, email, assemble(u_parts))
    /\ u_pc = "in"
    /\ u_key = None
    /\ u_valid = FALSE
    /\ u_rekey = None
    /\ DedupIdle
    /\ BuildIdle
    /\ SideIdle

\* is_valid_record(u_rec)
UrlValidate ==
    /\ u_pc = "in"
    /\ u_valid' = is_valid_record(u_rec)
    /\ u_pc' = "validated"
    /\ UNCHANGED <<u_parts, u_rec, u_key, u_rekey>>
    /\ UNCHANGED <<dedupVars, buildVars, sideVars>>

\* the key of u_rec.url (lines 384-397)
UrlNormalize ==
    /\ u_pc = "validated"
    /\ u_key' = dedup_key(u_rec.url)
    /\ u_pc' = "keyed"
    /\ UNCHANGED <<u_parts, u_rec, u_valid, u_rekey>>
    /\ UNCHANGED <<dedupVars, buildVars, sideVars>>

\* the key of the key turned back into a URL
UrlRenormalize ==
    /\ u_pc = "keyed"
    /\ u_rekey' = dedup_key(normalize_as_url(u_key))
    /\ u_pc' = "rekeyed"
    /\ UNCHANGED <<u_parts, u_rec, u_valid, u_key>>
    /\ UNCHANGED <<dedupVars, buildVars, sideVars>>

NextUrl == UrlValidate \/ UrlNormalize \/ UrlRenormalize

SpecUrl == InitUrl /\ [][NextUrl]_vars

\* the rejection rule of section 4.5 on the domain the filter computes
C3_Rejected(url) ==
    \/ url = <<>>
    \/ LET n == normalized_domain(url)
       IN  /\ n.ok
           /\ \E b \in blocked_domains :
                  n.domain = b \/ endswith(n.domain, <<".">> \o b)

\* C3: is_valid_record returns false if and only if the url is empty or its
\* normalized domain is a blocklist entry or ends with '.' and a blocklist
\* entry, whatever the other fields hold; the facebook and yelp examples are
\* rejected and https://acmewidgets.com is accepted.
C3_ValidIffNotBlocked ==
    u_pc \in {"validated", "keyed", "rekeyed"} =>
        /\ u_valid = ~C3_Rejected(u_rec.url)
        /\ u_rec.url = UrlFacebookPage => ~u_valid
        /\ u_rec.url = UrlYelpBiz => ~u_valid
        /\ u_rec.url = UrlAcmeWidgets => u_valid

\* C3 witness: a record with a name and an email on a subdomain of a blocked
\* domain was rejected
C3_Witness ==
    /\ u_pc = "validated"
    /\ u_rec = Rec(AcmeCo, InfoAtAcme, UrlYelpBiz)
    /\ ~u_valid

\* the host of section 4.4: lower-cased, one leading 'www.' removed
C4_HostKey(p) == strip_www(p.host)

\* C4: the domain key is the host component only, lower-cased, with one
\* leading 'www.' removed, whatever the scheme, userinfo, port or path; a URL
\* whose host is a blocked domain is rejected whatever its port or userinfo.
C4_KeyIsHostOnly ==
    (/\ u_pc \in {"keyed", "rekeyed"}
     /\ u_parts.scheme # <<>>
     /\ "[" \notin ToSet(u_parts.host)) =>
        /\ u_key = C4_HostKey(u_parts)
        /\ is_blocked(C4_HostKey(u_parts)) => ~u_valid

MaxPieces == 2

AtExample == <<"a","@","e","x","a","m","p","l","e",".","c","o","m">>
JoeAtContest == <<"j","o","e","@","c","o","n","t","e","s","t",".","c","o","m">>
TestComAtAcme == <<"t","e","s","t",".","c","o","m","@","a","c","m","e",".","o","r","g">>
SalesAtExampleUpper == <<"S","a","l","e","s","@","E","x","a","m","p","l","e",".","C","O","M">>
OakSt == <<"5"," ","O","a","k"," ","S","t",".">>
MainStreetZip ==
    MainStreet \o <<","," ","S","p","r","i","n","g","f","i","e","l","d"," ","I","L"," ","6","2","7","0","4">>

\* what a text can hold: e-mail addresses on a placeholder domain, on a domain
\* that contains one, with a local part that contains one, and on another
\* domain; an international and a North-American telephone number; an address
\* without and with a postal code
TextPieces == { AtExample, JoeAtContest, TestComAtAcme, SalesAtExampleUpper, InfoAtAcme,
                Phone44, Phone555, OakSt, MainStreetZip }

PieceSep == <<";", " ">>

RECURSIVE join_pieces(_, _)
join_pieces(q, k) ==
    IF k > Len(q) THEN <<>>
    ELSE IF k = Len(q) THEN q[k]
    ELSE q[k] \o PieceSep \o join_pieces(q, k + 1)

ExtractTexts == { join_pieces(q, 1) : q \in SeqsUpTo(TextPieces, MaxPieces) }

InitExtract ==
    /\ x_text \in ExtractTexts
    /\ x_done = {}
    /\ x_email = None
    /\ x_phone = None
    /\ x_address = None
    /\ DedupIdle
    /\ BuildIdle
    /\ UrlIdle
    /\ SearchIdle
    /\ MainIdle
    /\ HtmlIdle

\* the extractors run in the order of lines 205-211 (and 362-366)
ExtractEmail ==
    /\ x_done = {}
    /\ x_email' = extract_email(x_text)
    /\ x_done' = x_done \cup {"email"}
    /\ UNCHANGED <<x_text, x_phone, x_address>>
    /\ UNCHANGED <<dedupVars, buildVars, urlVars, searchVars, mainVars, htmlVars>>

ExtractPhone ==
    /\ x_done = {"email"}
    /\ x_phone' = extract_phone(x_text)
    /\ x_done' = x_done \cup {"phone"}
    /\ UNCHANGED <<x_text, x_email, x_address>>
    /\ UNCHANGED <<dedupVars, buildVars, urlVars, searchVars, mainVars, htmlVars>>

ExtractAddress ==
    /\ x_done = {"email", "phone"}
    /\ x_address' = extract_address(x_text)
    /\ x_done' = x_done \cup {"address"}
    /\ UNCHANGED <<x_text, x_email, x_phone>>
    /\ UNCHANGED <<dedupVars, buildVars, urlVars, searchVars, mainVars, htmlVars>>

NextExtract == ExtractEmail \/ ExtractPhone \/ ExtractAddress

SpecExtract == InitExtract /\ [][NextExtract]_vars

\* the matches of the e-mail pattern in the text, in text order
EmailMatches == re_findall(x_text, email_pattern, 1)

\* the part of an e-mail address after the '@', lower-cased
DomainPart(e) ==
    LET at == CHOOSE i \in DOMAIN e : e[i] = "@" /\ \A j \in (i + 1)..Len(e) : e[j] # "@"
    IN  str_lower(SubSeq(e, at + 1, Len(e)))

OnPlaceholderDomain(e) == DomainPart(e) \in placeholder_domains

\* C12: extract_email returns absent or one of the matches of the pattern in
\* the text, and never an address on a placeholder domain when the text has a
\* match that is not on a placeholder domain.
C12_EmailNeverPlaceholderIfOther ==
    "email" \in x_done =>
        /\ x_email = None \/ \E k \in DOMAIN EmailMatches : x_email = EmailMatches[k]
        /\ (\E k \in DOMAIN EmailMatches : ~OnPlaceholderDomain(EmailMatches[k]))
               => (x_email # None /\ ~OnPlaceholderDomain(x_email))

\* C13: extract_email returns the first match whose domain part is not
\* example.com, test.com or domain.com; the first match of all if every match
\* is on one of them; absent if there is no match.
C13_EmailFirstNotOnPlaceholder ==
    "email" \in x_done =>
        LET kept == SelectSeq(EmailMatches, LAMBDA e : ~OnPlaceholderDomain(e))
        IN  x_email = IF EmailMatches = <<>> THEN None
                      ELSE IF kept # <<>> THEN kept[1] ELSE EmailMatches[1]

\* C14: extract_phone returns the first match of the North-American pattern,
\* trimmed, whenever that pattern matches, also when a match of the
\* international pattern starts earlier; the first international match only
\* when the North-American pattern has no match; absent when neither matches.
C14_PhoneNorthAmericanFirst ==
    "phone" \in x_done =>
        LET na == re_findall(x_text, phone_patterns[1], 1)
            intl == re_findall(x_text, phone_patterns[2], 1)
        IN  /\ na # <<>> => x_phone = str_strip(na[1])
            /\ (na = <<>> /\ intl # <<>>) => x_phone = str_strip(intl[1])
            /\ (na = <<>> /\ intl = <<>>) => x_phone = None
            /\ x_text = Phone44 \o PieceSep \o Phone555 => x_phone = Phone555
            /\ x_text = Phone44 => x_phone = Phone44

\* C14 witness: the international number comes first in the text and the
\* North-American number is returned
C14_Witness ==
    /\ "phone" \in x_done
    /\ x_text = Phone44 \o PieceSep \o Phone555
    /\ x_phone = Phone555

\* C20: extract_address returns the first match of the pattern with a postal
\* code whenever that pattern matches, also when a match of the pattern
\* without postal code starts earlier; the first match of the latter only when
\* the former has no match; absent when neither matches.
C20_AddressPostalCodeFirst ==
    "address" \in x_done =>
        LET zip == re_findall(x_text, address_patterns[1], 1)
            short == re_findall(x_text, address_patterns[2], 1)
        IN  /\ zip # <<>> => x_address = str_strip(zip[1])
            /\ (zip = <<>> /\ short # <<>>) => x_address = str_strip(short[1])
            /\ (zip = <<>> /\ short = <<>>) => x_address = None
            /\ x_text = OakSt \o PieceSep \o MainStreetZip => x_address = MainStreetZip
            /\ x_text = OakSt => x_address = SubSeq(OakSt, 1, 8)

\* C20 witness: the address without postal code comes first in the text and
\* the address with postal code is returned
C20_Witness ==
    /\ "address" \in x_done
    /\ x_text = OakSt \o PieceSep \o MainStreetZip
    /\ x_address = MainStreetZip

(***************************************************************************)
(* SpecSearch: search_google                                               *)
(***************************************************************************)
\* the largest max_results a call is made with, and how far below zero the
\* smallest is
MaxMaxResults == 21
MaxNegative == 11

\* results per request of the search API (lines 82, 85 and 90)
PageSize == 10

DigitChar(d) == <<"0", "1", "2", "3", "4", "5", "6", "7", "8", "9">>[d + 1]

\* the k-th hit of the provider for the query: an item of data['items'];
\* every second hit has a link only
provider_item(k) ==
    LET link == UrlAcme \o <<"/">> \o <<DigitChar(k \div 10), DigitChar(k % 10)>>
    IN  IF k % 2 = 1
        THEN ("title" :> AcmeCo) @@ ("link" :> link) @@ ("snippet" :> SnippetAcme)
        ELSE ("link" :> link)

\* lines 101-105: item.get(key, '')
to_result(item) ==
    [title |-> IF "title" \in DOMAIN item THEN item["title"] ELSE <<>>,
     link |-> IF "link" \in DOMAIN item THEN item["link"] ELSE <<>>,
     snippet |-> IF "snippet" \in DOMAIN item THEN item["snippet"] ELSE <<>>]

\* lines 100-108: the items are appended until max_results are there
RECURSIVE append_items(_, _, _, _)
append_items(res, items, k, max) ==
    IF k > Len(items) THEN res
    ELSE LET r2 == Append(res, to_result(items[k]))
         IN  IF Len(r2) >= max THEN r2 ELSE append_items(r2, items, k + 1, max)

\* mutant of num_requests: one request more than the full pages
num_requests_full_pages_plus_one == (max_results \div PageSize) + 1

\* line 82
num_requests == (max_results + 9) \div PageSize

\* lines 85-91: start and num of the next request
next_request ==
    [start |-> req_i * PageSize + 1,
     num |-> IF max_results - Len(results) < PageSize
             THEN max_results - Len(results) ELSE PageSize]

\* results[:max_results]
slice_to(seq, n) == SubSeq(seq, 1, IF Len(seq) < n THEN Len(seq) ELSE n)

InitSearch ==
    /\ s_version \in {"v3", "v1"}
    /\ max_results \in (0 - MaxNegative)..MaxMaxResults
    /\ results = <<>>
    /\ req_i = 0
    /\ s_pc = "search"
    /\ s_requests = <<>>
    /\ s_received = <<>>
    /\ s_failed = 0
    /\ s_returned = <<>>
    /\ DedupIdle
    /\ BuildIdle
    /\ UrlIdle
    /\ ExtractIdle
    /\ MainIdle
    /\ HtmlIdle

\* lines 84-111: a request is answered with a list of at most num items
SearchPage ==
    /\ s_pc = "search"
    /\ req_i < num_requests
    /\ \E m \in {0, 1, next_request.num - 1, next_request.num} \cap 0..next_request.num :
          LET items == [j \in 1..m |-> provider_item(next_request.start + j - 1)]
          IN  /\ results' = append_items(results, items, 1, max_results)
              /\ s_received' = s_received \o [j \in 1..m |-> to_result(items[j])]
    /\ s_requests' = Append(s_requests, next_request)
    /\ req_i' = req_i + 1
    /\ UNCHANGED <<max_results, s_pc, s_failed, s_returned, s_version>>
    /\ UNCHANGED <<dedupVars, buildVars, urlVars, extractVars, mainVars, htmlVars>>

\* lines 84-111: the answer is a JSON object without 'items' (no hits, or an
\* error object with status 200): line 99 skips it and the loop goes on;
\* web_search_agent.py leaves the loop (lines 78-85 and 98-103)
SearchNoItems ==
    /\ s_pc = "search"
    /\ req_i < num_requests
    /\ s_requests' = Append(s_requests, next_request)
    /\ s_failed' = IF s_failed = 0 THEN Len(s_requests) + 1 ELSE s_failed
    /\ IF s_version = "v3"
       THEN req_i' = req_i + 1 /\ s_pc' = s_pc
       ELSE req_i' = req_i /\ s_pc' = "break"
    /\ UNCHANGED <<max_results, results, s_received, s_returned, s_version>>
    /\ UNCHANGED <<dedupVars, buildVars, urlVars, extractVars, mainVars, htmlVars>>

\* lines 95-96, 113-115: the request fails or the provider answers with an
\* error status; RequestException is caught and the loop is left
SearchRequestFails ==
    /\ s_pc = "search"
    /\ req_i < num_requests
    /\ s_requests' = Append(s_requests, next_request)
    /\ s_failed' = IF s_failed = 0 THEN Len(s_requests) + 1 ELSE s_failed
    /\ s_pc' = "break"
    /\ UNCHANGED <<max_results, results, req_i, s_received, s_returned, s_version>>
    /\ UNCHANGED <<dedupVars, buildVars, urlVars, extractVars, mainVars, htmlVars>>

\* line 97: the body is no JSON; response.json() raises a RequestException
\* (requests from 2.27 on) or a ValueError that line 113 does not catch;
\* web_search_agent.py catches both (lines 115-118)
SearchBadJson ==
    /\ s_pc = "search"
    /\ req_i < num_requests
    /\ s_requests' = Append(s_requests, next_request)
    /\ s_failed' = IF s_failed = 0 THEN Len(s_requests) + 1 ELSE s_failed
    /\ s_pc' \in IF s_version = "v3" THEN {"break", "raised"} ELSE {"break"}
    /\ UNCHANGED <<max_results, results, req_i, s_received, s_returned, s_version>>
    /\ UNCHANGED <<dedupVars, buildVars, urlVars, extractVars, mainVars, htmlVars>>

\* lines 99-102: the body is JSON null, or an item is no object: the TypeError
\* or AttributeError is not caught by line 113
SearchBadShape ==
    /\ s_pc = "search"
    /\ req_i < num_requests
    /\ s_requests' = Append(s_requests, next_request)
    /\ s_failed' = IF s_failed = 0 THEN Len(s_requests) + 1 ELSE s_failed
    /\ s_pc' = "raised"
    /\ UNCHANGED <<max_results, results, req_i, s_received, s_returned, s_version>>
    /\ UNCHANGED <<dedupVars, buildVars, urlVars, extractVars, mainVars, htmlVars>>

\* line 117, after the last request or the break
SearchReturn ==
    /\ \/ s_pc = "search" /\ req_i >= num_requests
       \/ s_pc = "break"
    /\ s_returned' = slice_to(results, max_results)
    /\ s_pc' = "returned"
    /\ UNCHANGED <<max_results, results, req_i, s_requests, s_received, s_failed, s_version>>
    /\ UNCHANGED <<dedupVars, buildVars, urlVars, extractVars, mainVars, htmlVars>>

NextSearch ==
    \/ SearchPage \/ SearchNoItems \/ SearchRequestFails \/ SearchBadJson
    \/ SearchBadShape \/ SearchReturn

SpecSearch == InitSearch /\ [][NextSearch]_vars

\* C15: search_google returns the results in the order the provider returned
\* them, never more than max_results; after the first failed request, error or
\* malformed response (a response without items included) no further request
\* is issued, and the results of the earlier batches are returned, not raised
\* away.
C15_SearchStopsAtFirstFailure ==
    /\ s_pc # "raised"
    /\ s_pc = "returned" =>
           /\ s_returned = slice_to(s_received, max_results)
           /\ Len(s_returned) <= max_results
    /\ s_failed # 0 => Len(s_requests) = s_failed

(***************************************************************************)
(* SpecRun: search_and_extract over several search results, with a small   *)
(* choice of pages                                                         *)
(***************************************************************************)
\* the most search results of such a run
MaxRunResults == 2

\* search results: a site, the same site under another URL, a link that
\* urlparse rejects, a blocked site; the provider sent no snippet
RunResults == {
    [title |-> AcmeCo, link |-> UrlAcme, snippet |-> <<>>],
    [title |-> NA, link |-> UrlWwwAcme, snippet |-> <<>>],
    [title |-> AcmeCo, link |-> UrlMalformed, snippet |-> <<>>],
    [title |-> AcmeCo, link |-> UrlFacebookPage, snippet |-> <<>>] }

\* the page of a successful fetch: a title, a heading and no body text; and
\* its one script, which json.loads rejects
RunPages == { [title |-> BetaInc, h1 |-> Heading, text |-> <<>>] }
RunBlocks == { BlockMalformed }

InitRun ==
    /\ pc = "loop"
    /\ search_results \in SeqsUpTo(RunResults, MaxRunResults)
    /\ has_translator \in BOOLEAN
    /\ ri = 1
    /\ info = NoInfo
    /\ json_ld = <<>>
    /\ fetch_log = <<>>
    /\ soup = NoSoup
    /\ from_text = NoInfo
    /\ net_log = <<>>
    /\ company_info_list = <<>>
    /\ filtered_list = <<>>
    /\ unique_list = <<>>
    /\ seen_domains = {}
    /\ fi = 1
    /\ di = 1
    /\ UrlIdle
    /\ SideIdle

RunFetchOk == FetchOkFrom(RunPages)
RunMergeBlock == MergeBlockFrom(RunBlocks)

NextRun ==
    \/ ScrapeStart \/ FetchFail \/ RunFetchOk \/ RunMergeBlock \/ ScrapeReturn \/ Fallback
    \/ LoopExit \/ FilterStep \/ FilterReturn \/ DedupStep \/ DedupReturn

SpecRun == InitRun /\ [][NextRun]_vars

\* the run is one sequential thread: a step that can be taken is taken
SpecRunFair == SpecRun /\ WF_vars(NextRun)

\* the page requests of the run, in order
PageFetches == SelectSeq(net_log, LAMBDA e : e.op = "get")

\* what holds at every point of a run: the pages fetched so far are those of
\* the first search results, one each and in order, and so are the records
C16_InOrderOnce ==
    /\ Len(PageFetches) = Len(fetch_log)
    /\ Len(fetch_log) \in {ri - 1, ri}
    /\ Len(fetch_log) <= Len(search_results)
    /\ \A k \in DOMAIN PageFetches : PageFetches[k].url = search_results[k].link
    /\ Len(company_info_list) = ri - 1
    /\ \A k \in DOMAIN company_info_list : company_info_list[k].url = search_results[k].link
    /\ (\A k \in DOMAIN company_info_list :
            ~fetch_log[k] => company_info_list[k].company_name = search_results[k].title)
    /\ pc \in {"filter", "dedup", "done"} => Len(company_info_list) = Len(search_results)

\* C16: whatever fetches, scripts and URLs fail, search_and_extract comes to
\* its end; every search result is handled once, in order, with one page fetch
\* each; a failure leaves the later results to be handled.
C16_RunTerminatesInOrder == []C16_InOrderOnce /\ <>(pc = "done")

\* C16 witness: the fetch of the first result failed, its link does not parse
\* as a URL, a script of the second page was malformed; both have a record and
\* the run has ended
C16_Witness ==
    /\ pc = "done"
    /\ Len(search_results) = 2
    /\ search_results[1].link = UrlMalformed
    /\ fetch_log = <<FALSE, TRUE>>
    /\ Len(company_info_list) = 2
    /\ company_info_list[2].company_name = BetaInc
    /\ Len(unique_list) = 2

\* C19: every page fetch, failed or not, is followed by the courtesy delay
\* before the next request of the run goes out: in the log of the run no page
\* request comes directly after another one.
C19_DelayAfterEveryFetch ==
    \A k \in 1..(Len(net_log) - 1) :
        net_log[k].op = "get" => net_log[k + 1].op = "sleep"

(***************************************************************************)
(* SpecMain: main() of both scripts, with search_and_extract as one step   *)
(***************************************************************************)
\* the most records search_and_extract returns to main
MaxMainRecords == 2

\* os.getenv: None when the variable is not set, else its value
Key == <<"k","1">>
EnvValues == {None, <<>>, Key}
\* what the user types at a prompt
TypedText == {<<>>, <<" ">>, <<" ","k","1"," ">>, <<"w","e","b">>}
TypedNumbers == {<<>>, <<"0">>, <<"5">>, <<"x">>}

RECURSIVE digits_value(_)
digits_value(s) ==
    IF s = <<>> THEN 0
    ELSE 10 * digits_value(SubSeq(s, 1, Len(s) - 1))
         + (CHOOSE d \in 0..9 : DigitChar(d) = s[Len(s)])

\* lines 557-560: int(typed.strip() or "10"), 10 on ValueError
read_max_entries(typed) ==
    With(str_strip(typed), LAMBDA t :
        IF t = <<>> THEN 10
        ELSE IF \A i \in DOMAIN t : t[i] \in Digits THEN digits_value(t)
        ELSE 10)

\* the k-th record of a returned list; the lists have one record per domain
main_record(k) == Rec(None, None, Https \o <<"s", DigitChar(k)>> \o DotCom)

\* line 82, for the max_entries main passes on
requests_for(n) == (n + 9) \div PageSize

InitMain ==
    /\ m_version \in {"v3", "v1"}
    /\ m_pc = "prompt_key"
    /\ api_key \in EnvValues
    /\ search_engine_id \in EnvValues
    /\ keywords = <<>>
    /\ max_entries = 0
    /\ company_info = <<>>
    /\ m_ran = FALSE
    /\ m_requests = 0
    /\ m_written = FALSE
    /\ exit_status = {}
    /\ DedupIdle
    /\ BuildIdle
    /\ UrlIdle
    /\ ExtractIdle
    /\ SearchIdle
    /\ HtmlIdle

\* lines 544-545
MainPromptApiKey ==
    /\ m_pc = "prompt_key"
    /\ IF ~Truthy(api_key)
       THEN \E typed \in TypedText : api_key' = str_strip(typed)
       ELSE api_key' = api_key
    /\ m_pc' = "prompt_id"
    /\ UNCHANGED <<m_version, search_engine_id, keywords, max_entries, company_info,
                   m_ran, m_requests, m_written, exit_status>>
    /\ UNCHANGED <<dedupVars, buildVars, urlVars, extractVars, searchVars, htmlVars>>

\* lines 546-547
MainPromptEngineId ==
    /\ m_pc = "prompt_id"
    /\ IF ~Truthy(search_engine_id)
       THEN \E typed \in TypedText : search_engine_id' = str_strip(typed)
       ELSE search_engine_id' = search_engine_id
    /\ m_pc' = "check_credentials"
    /\ UNCHANGED <<m_version, api_key, keywords, max_entries, company_info,
                   m_ran, m_requests, m_written, exit_status>>
    /\ UNCHANGED <<dedupVars, buildVars, urlVars, extractVars, searchVars, htmlVars>>

\* lines 549-551
MainCredentialsMissing ==
    /\ m_pc = "check_credentials"
    /\ ~Truthy(api_key) \/ ~Truthy(search_engine_id)
    /\ exit_status' = {1}
    /\ m_pc' = "exited"
    /\ UNCHANGED <<m_version, api_key, search_engine_id, keywords, max_entries, company_info,
                   m_ran, m_requests, m_written>>
    /\ UNCHANGED <<dedupVars, buildVars, urlVars, extractVars, searchVars, htmlVars>>

\* lines 554-560
MainReadQuery ==
    /\ m_pc = "check_credentials"
    /\ Truthy(api_key) /\ Truthy(search_engine_id)
    /\ \E typed \in TypedText : keywords' = str_strip(typed)
    /\ \E typed \in TypedNumbers : max_entries' = read_max_entries(typed)
    /\ m_pc' = "check_keywords"
    /\ UNCHANGED <<m_version, api_key, search_engine_id, company_info,
                   m_ran, m_requests, m_written, exit_status>>
    /\ UNCHANGED <<dedupVars, buildVars, urlVars, extractVars, searchVars, htmlVars>>

\* lines 562-564
MainKeywordsMissing ==
    /\ m_pc = "check_keywords"
    /\ ~Truthy(keywords)
    /\ exit_status' = {1}
    /\ m_pc' = "exited"
    /\ UNCHANGED <<m_version, api_key, search_engine_id, keywords, max_entries, company_info,
                   m_ran, m_requests, m_written>>
    /\ UNCHANGED <<dedupVars, buildVars, urlVars, extractVars, searchVars, htmlVars>>

\* lines 567-568: the search requests (at least one when the loop of line 84
\* runs at all), one page request per result found, and the records kept
MainSearchAndExtract ==
    /\ m_pc = "check_keywords"
    /\ Truthy(keywords)
    /\ \E sent \in (IF requests_for(max_entries) = 0 THEN {0} ELSE 1..requests_for(max_entries)) :
       \E found \in 0..(IF max_entries < MaxMainRecords THEN max_entries ELSE MaxMainRecords) :
       \E kept \in 0..found :
           /\ m_requests' = sent + found
           /\ company_info' = [k \in 1..kept |-> main_record(k)]
    /\ m_ran' = TRUE
    /\ m_pc' = "check_result"
    /\ UNCHANGED <<m_version, api_key, search_engine_id, keywords, max_entries,
                   m_written, exit_status>>
    /\ UNCHANGED <<dedupVars, buildVars, urlVars, extractVars, searchVars, htmlVars>>

\* line 568: search_google raises (lines 97-102) and nothing catches it
MainSearchRaises ==
    /\ m_pc = "check_keywords"
    /\ Truthy(keywords)
    /\ requests_for(max_entries) > 0
    /\ m_requests' \in 1..requests_for(max_entries)
    /\ exit_status' = {1}
    /\ m_pc' = "exited"
    /\ UNCHANGED <<m_version, api_key, search_engine_id, keywords, max_entries, company_info,
                   m_ran, m_written>>
    /\ UNCHANGED <<dedupVars, buildVars, urlVars, extractVars, searchVars, htmlVars>>

\* v3 lines 570-572: sys.exit(0); web_search_agent.py lines 462-468: sys.exit(1)
MainNoRecords ==
    /\ m_pc = "check_result"
    /\ company_info = <<>>
    /\ exit_status' = IF m_version = "v3" THEN {0} ELSE {1}
    /\ m_pc' = "exited"
    /\ UNCHANGED <<m_version, api_key, search_engine_id, keywords, max_entries, company_info,
                   m_ran, m_requests, m_written>>
    /\ UNCHANGED <<dedupVars, buildVars, urlVars, extractVars, searchVars, htmlVars>>

\* lines 575-583: the report is written and main returns
MainWriteReport ==
    /\ m_pc = "check_result"
    /\ company_info # <<>>
    /\ m_written' = TRUE
    /\ exit_status' = {0}
    /\ m_pc' = "exited"
    /\ UNCHANGED <<m_version, api_key, search_engine_id, keywords, max_entries, company_info,
                   m_ran, m_requests>>
    /\ UNCHANGED <<dedupVars, buildVars, urlVars, extractVars, searchVars, htmlVars>>

NextMain ==
    \/ MainPromptApiKey \/ MainPromptEngineId \/ MainCredentialsMissing \/ MainReadQuery
    \/ MainKeywordsMissing \/ MainSearchAndExtract \/ MainSearchRaises
    \/ MainNoRecords \/ MainWriteReport

SpecMain == InitMain /\ [][NextMain]_vars

\* C17: a run of main that ends with a credential missing ends with a failure
\* status and has made no request; a run in which search_and_extract returned
\* no record ends with a success status.
C17_MainOutcome ==
    m_pc = "exited" =>
        /\ (~Truthy(api_key) \/ ~Truthy(search_engine_id)) => exit_status = {1} /\ m_requests = 0
        /\ (m_ran /\ company_info = <<>>) => exit_status = {0}

(***************************************************************************)
(* SpecHtml: generate_html of both scripts                                 *)
(***************************************************************************)
\* the longest list of records a report is generated for
MaxHtmlRecords == 1

RECURSIVE str_replace(_, _, _)
\* s.replace(c, rep) for a character c
str_replace(s, c, rep) ==
    IF s = <<>> THEN <<>>
    ELSE (IF Head(s) = c THEN rep ELSE <<Head(s)>>) \o str_replace(Tail(s), c, rep)

\* the character references html.escape writes
Entities == [amp |-> <<"&","a","m","p",";">>, lt |-> <<"&","l","t",";">>, gt |-> <<"&","g","t",";">>, quot |-> <<"&","q","u","o","t",";">>, apos |-> <<"&","#","x","2","7",";">>]

\* html.escape(s, quote=False): & first, then < and >
escape_markup_only(s) ==
    str_replace(str_replace(str_replace(s, "&", Entities.amp), "<", Entities.lt), ">", Entities.gt)

\* html.escape(s): the same, then both quote characters
escape(s) ==
    str_replace(str_replace(escape_markup_only(s), "\"", Entities.quot), "'", Entities.apos)

\* the fixed text of the document (the style sheet is cut down to one rule)
HeadOpen == <<"<","s","t","y","l","e",">","b","o","d","y"," ","{"," ","f","o","n","t","-","f","a","m","i","l","y",":"," ","'","S","e","g","o","e"," ","U","I","'",";"," ","}","<","/","s","t","y","l","e",">","<","h","1",">","C","o","m","p","a","n","y"," ","S","e","a","r","c","h"," ","R","e","s","u","l","t","s","<","/","h","1",">","<","p",">","<","s","t","r","o","n","g",">","K","e","y","w","o","r","d","s",":","<","/","s","t","r","o","n","g",">"," ">>
HeadLocation == <<"<","/","p",">","<","p",">","<","s","t","r","o","n","g",">","L","o","c","a","t","i","o","n",":","<","/","s","t","r","o","n","g",">"," ">>
HeadCount == <<"<","/","p",">","<","p",">","<","s","t","r","o","n","g",">","T","o","t","a","l"," ","R","e","s","u","l","t","s",":","<","/","s","t","r","o","n","g",">"," ">>
HeadClose == <<"<","/","p",">","<","t","a","b","l","e",">","<","t","b","o","d","y",">">>
Missing == <<"<","s","p","a","n"," ","c","l","a","s","s","=","\"","m","i","s","s","i","n","g","\"",">","N","/","A","<","/","s","p","a","n",">">>
RowOpen == <<"<","t","r",">">>
RowClose == <<"<","/","t","r",">">>
CellOpen == <<"<","t","d",">">>
CellClose == <<"<","/","t","d",">">>
NameCellOpen == <<"<","t","d"," ","c","l","a","s","s","=","\"","c","o","m","p","a","n","y","-","n","a","m","e","\"",">">>
LinkOpen == <<"<","t","d",">","<","a"," ","h","r","e","f","=","\"">>
LinkMiddle == <<"\""," ","t","a","r","g","e","t","=","\"","_","b","l","a","n","k","\""," ","c","l","a","s","s","=","\"","u","r","l","\"",">">>
LinkClose == <<"<","/","a",">","<","/","t","d",">">>
HtmlTail == <<"<","/","t","b","o","d","y",">","<","/","t","a","b","l","e",">","<","/","b","o","d","y",">","<","/","h","t","m","l",">">>

\* lines 416-418 and the head of the document, up to <tbody>
html_head(kw, loc, count) ==
    HeadOpen \o escape(kw) \o HeadLocation \o escape(loc)
        \o HeadCount \o <<DigitChar(count)>> \o HeadClose

\* line 515 (and 400-403 of web_search_agent.py): the text of one field
cell_text(rec, f) == IF Truthy(rec[f]) THEN escape(rec[f]) ELSE Missing

\* the fields a row shows besides the url, in the order of the columns
RowFields(version) ==
    IF version = "v3" THEN <<"email">> ELSE <<"company_name", "email", "phone", "address">>

\* escape(value) raises AttributeError for a value that is no str
row_raises(version, rec) ==
    \/ ~is_str(rec.url)
    \/ \E k \in DOMAIN RowFields(version) :
           Truthy(rec[RowFields(version)[k]]) /\ ~is_str(rec[RowFields(version)[k]])

link_cell(rec) ==
    With(escape(rec.url), LAMBDA url : LinkOpen \o url \o LinkMiddle \o url \o LinkClose)

\* lines 514-523: the row of a record (web_search_agent.py: 399-414)
html_row(version, rec) ==
    IF version = "v3"
    THEN RowOpen \o link_cell(rec)
             \o CellOpen \o cell_text(rec, "email") \o CellClose \o RowClose
    ELSE RowOpen \o NameCellOpen \o cell_text(rec, "company_name") \o CellClose
             \o CellOpen \o cell_text(rec, "email") \o CellClose
             \o CellOpen \o cell_text(rec, "phone") \o CellClose
             \o CellOpen \o cell_text(rec, "address") \o CellClose
             \o link_cell(rec) \o RowClose

RECURSIVE html_rows(_, _)
html_rows(version, list) ==
    IF list = <<>> THEN <<>>
    ELSE html_row(version, Head(list)) \o html_rows(version, Tail(list))

\* the document generate_html returns when no escape raises
generate_html(version, list, kw, loc) ==
    html_head(kw, loc, Len(list)) \o html_rows(version, list) \o HtmlTail

\* texts with the characters of markup in them
TagText == <<"<","b",">","x","<","/","b",">">>
QuoteText == <<"\"","a","'","&">>
EntityText == <<"&","l","t",";">>
UrlInject == UrlAcme \o <<"/","\"",">","<","i",">","'">>

HtmlKeywords == {AcmeCo, TagText, EntityText}
HtmlLocations == {<<>>, QuoteText, TagText}

\* records: nothing found; markup in every field; empty and plain fields; an
\* email that is a list; a phone that is a number
HtmlRecords == {
    Rec(None, None, UrlAcme),
    [company_name |-> TagText, email |-> QuoteText, phone |-> EntityText,
     address |-> TagText, url |-> UrlInject],
    [company_name |-> AcmeCo, email |-> <<>>, phone |-> Phone555,
     address |-> <<>>, url |-> UrlX],
    [company_name |-> QuoteText, email |-> TagText, phone |-> None,
     address |-> EntityText, url |-> UrlX],
    Rec(AcmeCo, <<"#list">>, UrlAcme),
    [company_name |-> AcmeCo, email |-> InfoAtAcme, phone |-> <<"#num", "5">>,
     address |-> None, url |-> UrlAcme] }

InitHtml ==
    /\ h_version \in {"v3", "v1"}
    /\ h_pc = "head"
    /\ h_keywords \in HtmlKeywords
    /\ h_location \in HtmlLocations
    /\ h_list \in SeqsUpTo(HtmlRecords, MaxHtmlRecords)
    /\ h_i = 1
    /\ html = <<>>
    /\ DedupIdle
    /\ BuildIdle
    /\ UrlIdle
    /\ ExtractIdle
    /\ SearchIdle
    /\ MainIdle

\* lines 416-511
HtmlHead ==
    /\ h_pc = "head"
    /\ html' = html_head(h_keywords, h_location, Len(h_list))
    /\ h_pc' = "rows"
    /\ UNCHANGED <<h_version, h_keywords, h_location, h_list, h_i>>
    /\ UNCHANGED <<dedupVars, buildVars, urlVars, extractVars, searchVars, mainVars>>

\* lines 514-523: one iteration of the loop over the records
HtmlRow ==
    /\ h_pc = "rows"
    /\ h_i <= Len(h_list)
    /\ ~row_raises(h_version, h_list[h_i])
    /\ html' = html \o html_row(h_version, h_list[h_i])
    /\ h_i' = h_i + 1
    /\ UNCHANGED <<h_version, h_pc, h_keywords, h_location, h_list>>
    /\ UNCHANGED <<dedupVars, buildVars, urlVars, extractVars, searchVars, mainVars>>

\* lines 515-516: escape raises and generate_html returns no document
HtmlRowRaises ==
    /\ h_pc = "rows"
    /\ h_i <= Len(h_list)
    /\ row_raises(h_version, h_list[h_i])
    /\ h_pc' = "raised"
    /\ UNCHANGED <<h_version, h_keywords, h_location, h_list, h_i, html>>
    /\ UNCHANGED <<dedupVars, buildVars, urlVars, extractVars, searchVars, mainVars>>

\* lines 525-535
HtmlReturn ==
    /\ h_pc = "rows"
    /\ h_i > Len(h_list)
    /\ html' = html \o HtmlTail
    /\ h_pc' = "done"
    /\ UNCHANGED <<h_version, h_keywords, h_location, h_list, h_i>>
    /\ UNCHANGED <<dedupVars, buildVars, urlVars, extractVars, searchVars, mainVars>>

NextHtml == HtmlHead \/ HtmlRow \/ HtmlRowRaises \/ HtmlReturn

SpecHtml == InitHtml /\ [][NextHtml]_vars

\* the characters that open and close tags and attribute values
MarkupChars == {"<", ">", "\"", "'"}
markup_of(doc) == SelectSeq(doc, LAMBDA c : c \in MarkupChars)

\* a text with nothing to escape in the place of every non-empty text
harmless(v) == IF Truthy(v) THEN <<"x">> ELSE v
harmless_list(list) == [k \in DOMAIN list |-> [f \in Fields |-> harmless(list[k][f])]]

\* every & of the document starts one of the character references
ampersands_escaped(doc) ==
    \A i \in DOMAIN doc :
        doc[i] = "&" =>
            \E n \in DOMAIN Entities :
                /\ i + Len(Entities[n]) - 1 <= Len(doc)
                /\ SubSeq(doc, i, i + Len(Entities[n]) - 1) = Entities[n]

\* C18: no character < > " ' of the keywords, the location or a field of a
\* record is markup in the document: the returned document has the tags and
\* quotes of the document for harmless texts in the same places (with the
\* N/A placeholder for the absent fields), and every & in it starts a
\* character reference.
C18_ScrapedTextEscaped ==
    h_pc = "done" =>
        /\ markup_of(html) = markup_of(generate_html(h_version, harmless_list(h_list),
                                                     harmless(h_keywords), harmless(h_location)))
        /\ ampersands_escaped(html)

\* C18 witness: the earlier report for a record with markup in every field,
\* searched with keywords that hold a tag
C18_Witness ==
    /\ h_pc = "done"
    /\ h_version = "v1"
    /\ h_keywords = TagText
    /\ h_location = QuoteText
    /\ Len(h_list) = 1
    /\ h_list[1].url = UrlInject
    /\ h_list[1].email = QuoteText
    /\ contains(html, escape(UrlInject) \o LinkMiddle \o escape(UrlInject))

(***************************************************************************)
(* SpecTypes: a run over pages whose Organization blocks hold values of    *)
(* every JSON shape                                                        *)
(***************************************************************************)
\* the most search results of such a run
MaxTypeResults == 1

\* Organization blocks: a number as name, a list as email, a number as
\* telephone; empty values of each shape; texts only
BlockShapes ==
    [kind |-> "dict",
     data |-> ("@type" :> JStr(Organization)) @@ ("name" :> JNum(<<"7">>))
              @@ ("email" :> JList(<<InfoAtAcme>>)) @@ ("telephone" :> JNum(<<"5", "5", "5">>))]
BlockNested ==
    [kind |-> "dict",
     data |-> ("@type" :> JStr(Organization))
              @@ ("email" :> JObj("@value" :> JStr(InfoAtAcme)))
              @@ ("address" :> JObj("streetAddress" :> JStr(OneMainSt)))]
BlockEmpties ==
    [kind |-> "dict",
     data |-> ("@type" :> JStr(Organization)) @@ ("name" :> JNum(<<"0">>))
              @@ ("email" :> JList(<<>>)) @@ ("telephone" :> JObj(<<>>))]
TypeBlocks == {BlockShapes, BlockNested, BlockEmpties, BlockEmailTel}

\* a page with a title and a page without title and heading; no body text
TypePages == {
    [title |-> BetaInc, h1 |-> None, text |-> <<>>],
    [title |-> None, h1 |-> None, text |-> <<>>] }

TypeResults == {
    [title |-> AcmeCo, link |-> UrlAcme, snippet |-> SnippetAcme],
    [title |-> AcmeCo, link |-> UrlX, snippet |-> <<>>] }

InitTypes ==
    /\ pc = "loop"
    /\ search_results \in SeqsUpTo(TypeResults, MaxTypeResults)
    /\ has_translator \in BOOLEAN
    /\ ri = 1
    /\ info = NoInfo
    /\ json_ld = <<>>
    /\ fetch_log = <<>>
    /\ soup = NoSoup
    /\ from_text = NoInfo
    /\ net_log = <<>>
    /\ company_info_list = <<>>
    /\ filtered_list = <<>>
    /\ unique_list = <<>>
    /\ seen_domains = {}
    /\ fi = 1
    /\ di = 1
    /\ UrlIdle
    /\ SideIdle

TypeFetchOk == FetchOkFrom(TypePages)
TypeMergeBlock == MergeBlockFrom(TypeBlocks)

NextTypes ==
    \/ ScrapeStart \/ FetchFail \/ TypeFetchOk \/ TypeMergeBlock \/ ScrapeReturn \/ Fallback
    \/ LoopExit \/ FilterStep \/ FilterReturn \/ DedupStep \/ DedupReturn

SpecTypes == InitTypes /\ [][NextTypes]_vars

\* the field is absent or a text
text_or_absent(v) == v = None \/ is_str(v)

CeilTenth(n) == CHOOSE q \in 1..n : 10 * q >= n /\ 10 * (q - 1) < n

\* every request issued so far: its start index and the bounds of its num
RequestsWellFormed ==
    /\ max_results >= 1 => Len(s_requests) <= CeilTenth(max_results)
    /\ \A i \in DOMAIN s_requests :
           /\ s_requests[i].start = 10 * (i - 1) + 1
           /\ s_requests[i].num \in 1..10
    /\ max_results <= 0 =>
           /\ s_requests = <<>>
           /\ s_pc = "returned" => s_returned = <<>>

\* a step that issues a request asks for min(10, max_results - len(results))
RequestAsksForTheRest ==
    Len(s_requests') > Len(s_requests) =>
        s_requests'[Len(s_requests')].num =
            (IF max_results - Len(results) > 10 THEN 10 ELSE max_results - Len(results))

\* C22: for max_results >= 1 (the responses carry at most num items) at most
\* ceil(max_results / 10) requests are issued, request i, counted from 0,
\* starts at 10 * i + 1, and every num is min(10, max_results - collected) and
\* lies in 1..10; for max_results <= 0 no request is issued and the result is
\* empty.
C22_PaginationArithmetic == []RequestsWellFormed /\ [][RequestAsksForTheRest]_vars

\* C22 witness: 21 results were asked for and returned; the third request
\* started at 21 and asked for one
C22_Witness ==
    /\ s_pc = "returned"
    /\ max_results = 21
    /\ Len(s_requests) = 3
    /\ s_requests[3] = [start |-> 21, num |-> 1]
    /\ Len(s_returned) = 21

====
